---- MODULE Spec2Model ----
(***************************************************************************)
(* Buildora: the virtual file tree (FileExplorer and the tree operations   *)
(* it calls), the persisted project store, and the export / single-file    *)
(* merge engine of ApkBuilder.                                             *)
(*                                                                         *)
(* Strings are sequences of lexemes: a lexeme is one character (" ", "a")  *)
(* or an indivisible run of characters ("index.html", "</head>").  File    *)
(* ids are the strings the code uses ('1', '2', '3', 'root').              *)
(***************************************************************************)
EXTENDS Integers, Sequences, FiniteSets, TLC

VARIABLES
    \* FileExplorer (src/types.ts 101-115) and the files prop it renders
    files, nextId, activeFolderId, addingType, newItemName,
    editingId, editName, fileToDelete, expandedFolders, items, lastOp,
    \* FileExplorer's import (src/types.ts 105-106, 166-215)
    isUploading, uploadProgress, fileList, processed, importFolder,
    \* the calls of a running recursive traversal (processFolder, renderTree)
    calls, callError,
    \* storage service (src/components/Export/ApkBuilder.tsx 265-321)
    store, now, lastDup,
    \* ApkBuilder (src/components/Export/ApkBuilder.tsx 11-150)
    project, isSingleFile, isZipping, successMsg, errorMsg,
    zip, htmlSteps, downloads,
    \* CodeEditor's AI rewrite (src/components/Editor/CodeEditor.tsx 31-35,
    \* 75-210): the response in flight, and the calls of onChange
    showAiModal, aiLoading, aiError, streamingCode, fullContent, buffer,
    stream, pending, changes, aiPhase

importVars == <<isUploading, uploadProgress, fileList, processed, importFolder>>
explorerVars == <<files, nextId, activeFolderId, addingType, newItemName,
                  editingId, editName, fileToDelete, expandedFolders, items,
                  lastOp, importVars>>
walkVars == <<calls, callError>>
aiVars == <<showAiModal, aiLoading, aiError, streamingCode, fullContent, buffer,
            stream, pending, changes, aiPhase>>
storeVars == <<store, now, lastDup>>
exportVars == <<project, isSingleFile, isZipping, successMsg, errorMsg,
                zip, htmlSteps, downloads>>
vars == <<explorerVars, storeVars, exportVars, walkVars, aiVars>>

----------------------------------------------------------------------------
(* Bounds of the model *)

\* ids handed out by the tree manager never exceed this
MaxId == 4
\* projects kept in the persisted store
MaxProjects == 2
\* files of a project in the store
MaxStoreFiles == 5
\* the clock of the store specification stops here
MaxNow == 2
\* a project name grows by " Copy" up to this many lexemes
MaxNameLen == 2

----------------------------------------------------------------------------
(* Strings *)

Null == "null"
root == "root"

IsSpace(c) == c \in {" ", "\n"}

RECURSIVE TrimStart(_)
TrimStart(s) ==
    IF s # <<>> /\ IsSpace(Head(s)) THEN TrimStart(Tail(s)) ELSE s

RECURSIVE TrimEnd(_)
TrimEnd(s) ==
    IF s # <<>> /\ IsSpace(s[Len(s)]) THEN TrimEnd(SubSeq(s, 1, Len(s) - 1)) ELSE s

\* String.prototype.trim
Trim(s) == TrimEnd(TrimStart(s))

Range(s) == {s[i] : i \in DOMAIN s}

----------------------------------------------------------------------------
(* Entity model *)

\* isDirectory?: boolean  -- the field may be absent
IsDirectoryValues == {"true", "false", "absent"}

\* if (file.isDirectory): only true is truthy
Truthy(d) == d = "true"

File(id, name, content, language, parentId, isDirectory) ==
    [id |-> id, name |-> name, content |-> content, language |-> language,
     parentId |-> parentId, isDirectory |-> isDirectory]

Ids(fs) == {fs[i].id : i \in DOMAIN fs}

\* createProject: indexContent for an html project.  Each tag the merge
\* looks for is spelled out in lexemes, a run of blanks is one " " and the
\* other pieces of a line are one lexeme each.
indexHtml(name) ==
    <<"<!DOCTYPE html", ">", "\n",
      "<html lang=\"en\"", ">", "\n",
      "<head", ">", "\n",
      " ", "<meta charset=\"UTF-8\"", ">", "\n",
      " ", "<meta name=\"viewport\" content=\"width=device-width, initial-scale=1.0\"", ">", "\n",
      " ", "<title", ">">> \o name \o <<"</title", ">", "\n",
      " ", "<link", " ", "rel=\"stylesheet\"", " ", "href=", "\"", "style.css", "\"", ">", "\n",
      "</head>", "\n",
      "<body", ">", "\n",
      " ", "<div class=\"container\"", ">", "\n",
      " ", "<h1", ">", "Welcome to ">> \o name \o <<"</h1", ">", "\n",
      " ", "<p", ">", "Start editing this file!", "</p", ">", "\n",
      " ", "<button id=\"clickMe\"", ">", "Click Me", "</button", ">", "\n",
      " ", "</div", ">", "\n",
      " ", "<script", " ", "src=", "\"", "script.js", "\"", ">", "</script>", "\n",
      "</body>", "\n",
      "</html", ">">>

\* createProject: indexContent for a php project
indexPhp(name) ==
    <<"<?php", "\n",
      " ", "// Basic PHP Local Server Simulation", "\n",
      " ", "$title = \"">> \o name \o <<"\";", "\n",
      " ", "echo \"<h1", ">", "Welcome to \" . $title . \"</h1", ">", "\";", "\n",
      " ", "echo \"<p", ">", "PHP Server is simulated in this environment.</p", ">", "\";", "\n",
      "?", ">">>

\* createProject: styleContent, one lexeme per rule
styleContent ==
    <<"body { ... }", "\n", ".container { ... }", "\n",
      "button { ... }", "\n", "button:hover { ... }">>

\* createProject: jsContent
jsContent ==
    <<"document.getElementById('clickMe').addEventListener('click', () =", ">", " {", "\n",
      " ", "alert('Hello from Buildora!');", "\n",
      "});">>

\* the three files createProject puts in a new project (isDirectory absent)
createProjectFiles(name, type) ==
    << File("1", IF type = "html" THEN <<"index.html">> ELSE <<"index.php">>,
            IF type = "html" THEN indexHtml(name) ELSE indexPhp(name),
            IF type = "html" THEN "html" ELSE "php", root, "absent"),
       File("2", <<"style.css">>, styleContent, "css", root, "absent"),
       File("3", <<"script.js">>, jsContent, "javascript", root, "absent") >>

----------------------------------------------------------------------------
(* Tree manager: addFile / deleteFile / renameFile as spec.md 4.1 states   *)
(* them (the handlers FileExplorer receives as props are not in src/).     *)

IsDirectoryId(fs, id) ==
    \E i \in DOMAIN fs : fs[i].id = id /\ Truthy(fs[i].isDirectory)

\* addFile without the InvalidParent check
addFileUnchecked(fs, parentId, name, content, isDir, newId) ==
    Append(fs, File(newId, name, content, "html", parentId,
                    IF isDir THEN "true" ELSE "false"))

addFile(fs, parentId, name, content, isDir, newId) ==
    IF parentId = root \/ IsDirectoryId(fs, parentId)
    THEN Append(fs, File(newId, name, content, "html", parentId,
                         IF isDir THEN "true" ELSE "false"))
    ELSE fs

Children(fs, id) == {fs[i].id : i \in {j \in DOMAIN fs : fs[j].parentId = id}}

RECURSIVE Descendants(_, _)
Descendants(fs, id) ==
    LET kids == Children(fs, id)
    IN  kids \cup UNION {Descendants(fs, k) : k \in kids}

RECURSIVE RemoveIds(_, _)
RemoveIds(fs, gone) ==
    IF fs = <<>> THEN <<>>
    ELSE IF Head(fs).id \in gone THEN RemoveIds(Tail(fs), gone)
         ELSE <<Head(fs)>> \o RemoveIds(Tail(fs), gone)

\* deleteFile that removes the target and its direct children only
deleteFileShallow(fs, id) ==
    IF id \notin Ids(fs) THEN fs
    ELSE RemoveIds(fs, {id} \cup Children(fs, id))

deleteFile(fs, id) ==
    IF id \notin Ids(fs) THEN fs
    ELSE RemoveIds(fs, {id} \cup Descendants(fs, id))

renameFile(fs, id, newName) ==
    IF id \notin Ids(fs) \/ Trim(newName) = <<>> THEN fs
    ELSE [i \in DOMAIN fs |->
            IF fs[i].id = id THEN [fs[i] EXCEPT !.name = newName] ELSE fs[i]]

----------------------------------------------------------------------------
(* Storage service: getProjects / saveProjects are the store variable      *)

\* the index of the first project with this id, 0 when there is none
\* (Array.prototype.findIndex gives -1)
FindIndex(projects, id) ==
    IF \E i \in DOMAIN projects : projects[i].id = id
    THEN CHOOSE i \in DOMAIN projects :
            /\ projects[i].id = id
            /\ \A j \in 1..(i - 1) : projects[j].id # id
    ELSE 0

saveProject(projects, p) ==
    LET index == FindIndex(projects, p.id)
    IN  IF index # 0 THEN [projects EXCEPT ![index] = p]
        ELSE Append(projects, p)

deleteProject(projects, id) == SelectSeq(projects, LAMBDA p : p.id # id)

createProject(name, type, t) ==
    [id |-> ToString(t), name |-> name, type |-> type, lastModified |-> t,
     files |-> createProjectFiles(name, type)]

\* Math.random().toString().slice(2): the digits of the fraction.  A draw is
\* taken never to repeat digits that an id of the store still carries.
RandomPool == <<"17", "42", "58", "63", "71", "29", "36", "84", "95", "10",
                "23", "47", "52", "68", "79", "81", "90", "14", "31", "66">>

AllFileIds(projects) == UNION {Ids(projects[i].files) : i \in DOMAIN projects}

FreshDraws(projects, t) ==
    SelectSeq(RandomPool, LAMBDA d : (ToString(t) \o d) \notin AllFileIds(projects))

\* newProject.files.map(f => ({...f, id: Date.now().toString() + random}))
regenerateFileIds(fs, t, draws) ==
    [i \in DOMAIN fs |-> [fs[i] EXCEPT !.id = ToString(t) \o draws[i]]]

\* the new project of duplicateProject (original is found)
duplicateOf(original, t, draws) ==
    [id |-> ToString(t),
     name |-> original.name \o <<" Copy">>,
     type |-> original.type,
     lastModified |-> t,
     files |-> regenerateFileIds(original.files, t, draws)]

----------------------------------------------------------------------------
(* ApkBuilder: the archive (JSZip) *)

\* String.prototype.startsWith('data:')
StartsWithData(content) == content # <<>> /\ Head(content) = "data:"

\* String.prototype.split(','): the pieces between the commas
RECURSIVE Split(_, _)
Split(s, acc) ==
    IF s = <<>> THEN <<acc>>
    ELSE IF Head(s) = "," THEN <<acc>> \o Split(Tail(s), <<>>)
         ELSE Split(Tail(s), Append(acc, Head(s)))

\* project.name.replace(/[^a-zA-Z0-9-_\s]/g, '')
SafeChars == {"A", "B", "a", "b", "P", "r", "o", "j", "e", "c", "t", "0",
              "-", "_", " ", "\n"}

StripUnsafe(name) == SelectSeq(name, LAMBDA c : c \in SafeChars)

\* the label "Project", character by character
DefaultLabel == <<"P", "r", "o", "j", "e", "c", "t">>

\* a sanitizer that does not trim
safeProjectNameNoTrim(name) ==
    IF StripUnsafe(name) = <<>> THEN DefaultLabel ELSE StripUnsafe(name)

\* a sanitizer that trims before it strips
safeProjectNameTrimFirst(name) ==
    IF StripUnsafe(Trim(name)) = <<>> THEN DefaultLabel
    ELSE StripUnsafe(Trim(name))

safeProjectName(name) ==
    IF Trim(StripUnsafe(name)) = <<>> THEN DefaultLabel
    ELSE Trim(StripUnsafe(name))

\* An entry of the archive: JSZip keeps its entries keyed by path (a folder's
\* key ends in "/"), in the order the keys were first written.
ZipEntry(path, dir, data, base64) ==
    [path |-> path, dir |-> dir, data |-> data, base64 |-> base64]

ZipPut(entries, e) ==
    IF \E i \in DOMAIN entries : entries[i].path = e.path /\ entries[i].dir = e.dir
    THEN [i \in DOMAIN entries |->
            IF entries[i].path = e.path /\ entries[i].dir = e.dir THEN e
            ELSE entries[i]]
    ELSE Append(entries, e)

\* folder.folder(name)
ZipFolder(entries, prefix, name) ==
    ZipPut(entries, ZipEntry(Append(prefix, name), TRUE, <<>>, FALSE))

\* folder.file(name, data) and folder.file(name, data, { base64: true })
ZipFile(entries, prefix, name, data, base64) ==
    ZipPut(entries, ZipEntry(Append(prefix, name), FALSE, data, base64))

\* project.files.filter(f => f.parentId === parentId)
FilterByParent(fs, parentId) == SelectSeq(fs, LAMBDA f : f.parentId = parentId)

IsBinary(item) == item.language \in {"image", "font"}

\* a leaf branch that writes a data URI without comma as an empty entry
ProcessLeafKeep(entries, prefix, item) ==
    IF IsBinary(item) /\ StartsWithData(item.content)
    THEN ZipFile(entries, prefix, item.name,
                 IF Len(Split(item.content, <<>>)) > 1
                 THEN Split(item.content, <<>>)[2] ELSE <<>>, TRUE)
    ELSE ZipFile(entries, prefix, item.name, item.content, FALSE)

\* a leaf branch that decodes every content with the prefix, whatever the kind
ProcessLeafAnyKind(entries, prefix, item) ==
    IF StartsWithData(item.content)
    THEN LET parts == Split(item.content, <<>>)
         IN  IF Len(parts) > 1
             THEN ZipFile(entries, prefix, item.name, parts[2], TRUE)
             ELSE entries
    ELSE ZipFile(entries, prefix, item.name, item.content, FALSE)

\* the leaf branch of processFolder (lines 101-114)
ProcessLeaf(entries, prefix, item) ==
    IF IsBinary(item) /\ StartsWithData(item.content)
    THEN LET parts == Split(item.content, <<>>)
         IN  IF Len(parts) > 1
             THEN ZipFile(entries, prefix, item.name, parts[2], TRUE)
             ELSE entries
    ELSE ZipFile(entries, prefix, item.name, item.content, FALSE)

RECURSIVE processFolder(_, _, _, _)
RECURSIVE ProcessItems(_, _, _, _)

\* items.forEach(item => ...)
ProcessItems(fs, its, prefix, entries) ==
    IF its = <<>> THEN entries
    ELSE LET item == Head(its)
             next == IF Truthy(item.isDirectory)
                     THEN processFolder(fs, item.id, Append(prefix, item.name),
                                        ZipFolder(entries, prefix, item.name))
                     ELSE ProcessLeaf(entries, prefix, item)
         IN  ProcessItems(fs, Tail(its), prefix, next)

\* processFolder that never descends into a folder
processFolderFlat(fs, parentId, prefix, entries) ==
    LET its == FilterByParent(fs, parentId)
        put(i, acc) == IF Truthy(its[i].isDirectory)
                       THEN ZipFolder(acc, prefix, its[i].name)
                       ELSE ProcessLeaf(acc, prefix, its[i])
        RECURSIVE go(_, _)
        go(i, acc) == IF i > Len(its) THEN acc ELSE go(i + 1, put(i, acc))
    IN  go(1, entries)

processFolder(fs, parentId, prefix, entries) ==
    ProcessItems(fs, FilterByParent(fs, parentId), prefix, entries)

\* the archive of the standard mode: the root folder, then the tree
StandardArchive(p) ==
    LET safe == safeProjectName(p.name)
    IN  processFolder(p.files, root, <<safe>>,
                      ZipFolder(<<>>, <<>>, safe))

----------------------------------------------------------------------------
(* ApkBuilder: the single-file merge.  A document is a sequence of lexemes; *)
(* the tags and file names the code searches for are lexemes of their own,  *)
(* so a search never matches part of a lexeme or across two of them.        *)

Min(S) == CHOOSE x \in S : \A y \in S : x <= y
Max(S) == CHOOSE x \in S : \A y \in S : x >= y

\* String.prototype.includes(lexeme)
Includes(doc, lex) == \E i \in DOMAIN doc : doc[i] = lex

\* the index of the first lexeme of doc that is in lexes (0: none)
FirstIndex(doc, lexes) ==
    IF \E i \in DOMAIN doc : doc[i] \in lexes
    THEN Min({i \in DOMAIN doc : doc[i] \in lexes})
    ELSE 0

\* GetSubstitution: in a replacement string $$ is a dollar, $& the matched
\* text, $ with a backtick (the lexeme "$[backtick]") the text before the
\* match and $' the text after it
RECURSIVE GetSubstitution(_, _, _, _)
GetSubstitution(replacement, matched, before, after) ==
    IF replacement = <<>> THEN <<>>
    ELSE LET c == Head(replacement)
             out == CASE c = "$$" -> <<"$">>
                      [] c = "$&" -> matched
                      [] c = "$[backtick]" -> before
                      [] c = "$'" -> after
                      [] OTHER -> <<c>>
         IN  out \o GetSubstitution(Tail(replacement), matched, before, after)

\* String.prototype.replace(pattern, replacement) for a pattern that matches
\* one lexeme out of lexes: the first match only
ReplaceFirst(doc, lexes, replacement) ==
    LET i == FirstIndex(doc, lexes)
    IN  IF i = 0 THEN doc
        ELSE LET before == SubSeq(doc, 1, i - 1)
                 after == SubSeq(doc, i + 1, Len(doc))
             IN  before \o GetSubstitution(replacement, <<doc[i]>>, before, after)
                        \o after

\* lexemes that hold a ">" (it is their last character)
GtLexemes == {">", "</head>", "</body>", "</script>", "<style>", "</style>",
              "<script>"}
\* lexemes whose last character is "/"
SlashLexemes == {"/", "css/", "js/", "cdn/"}
Quotes == {"\"", "'"}

\* [^>]*> and, for a script element, \s*<\/script> : where the match that
\* has its closing quote at q ends (0: no match)
TailEnd(doc, q, needClose) ==
    LET gs == {g \in (q + 1)..Len(doc) : doc[g] \in GtLexemes}
    IN  IF gs = {} THEN 0
        ELSE IF ~needClose THEN Min(gs)
        ELSE LET es == {e \in (Min(gs) + 1)..Len(doc) :
                           /\ doc[e] = "</script>"
                           /\ \A x \in (Min(gs) + 1)..(e - 1) : IsSpace(doc[x])}
             IN  IF es = {} THEN 0 ELSE Min(es)

\* ["'](.*?\/)?target["'] and the tail, for the attribute at h: the optional
\* path group is tried first, its lazy .*? (no newline) shortest first
ValueEnd(doc, h, target, needClose) ==
    IF h + 1 > Len(doc) \/ doc[h + 1] \notin Quotes THEN 0
    ELSE LET ks == {k \in (h + 2)..(Len(doc) - 2) :
                       /\ \A x \in (h + 2)..k : doc[x] # "\n"
                       /\ doc[k] \in SlashLexemes
                       /\ doc[k + 1] = target
                       /\ doc[k + 2] \in Quotes
                       /\ TailEnd(doc, k + 2, needClose) # 0}
         IN  IF ks # {} THEN TailEnd(doc, Min(ks) + 2, needClose)
             ELSE IF /\ h + 3 <= Len(doc)
                     /\ doc[h + 2] = target
                     /\ doc[h + 3] \in Quotes
                  THEN TailEnd(doc, h + 3, needClose)
                  ELSE 0

\* <open\s+[^>]*attr=... : where the match that starts at i ends (0: none);
\* the greedy [^>]* takes the last attr it can
MatchEnd(doc, i, open, attr, target, needClose) ==
    IF doc[i] # open \/ i + 1 > Len(doc) \/ ~IsSpace(doc[i + 1]) THEN 0
    ELSE LET hs == {h \in (i + 2)..Len(doc) :
                       /\ doc[h] = attr
                       /\ \A x \in (i + 1)..(h - 1) : doc[x] \notin GtLexemes
                       /\ ValueEnd(doc, h, target, needClose) # 0}
         IN  IF hs = {} THEN 0 ELSE ValueEnd(doc, Max(hs), target, needClose)

\* the start of the leftmost match at or after from (0: none)
NextMatch(doc, from, open, attr, target, needClose) ==
    LET starts == {i \in from..Len(doc) :
                      MatchEnd(doc, i, open, attr, target, needClose) # 0}
    IN  IF starts = {} THEN 0 ELSE Min(starts)

\* replace(regex /g, ''): every match, leftmost first, is removed; the scan
\* goes on after the end of each match
RECURSIVE RemoveMatches(_, _, _, _, _, _)
RemoveMatches(doc, i, open, attr, target, needClose) ==
    LET s == NextMatch(doc, i, open, attr, target, needClose)
    IN  IF s = 0 THEN SubSeq(doc, i, Len(doc))
        ELSE SubSeq(doc, i, s - 1)
                \o RemoveMatches(doc, MatchEnd(doc, s, open, attr, target, needClose) + 1,
                                 open, attr, target, needClose)

\* /<link\s+[^>]*href=["'](.*?\/)?style\.css["'][^>]*>/gi
RemoveLinkTags(doc) == RemoveMatches(doc, 1, "<link", "href=", "style.css", FALSE)

\* <script\s+[^>]*src=["'](.*?\/)?NAME["'][^>]*>\s*<\/script>  (gi)
RemoveScriptTags(doc, name) == RemoveMatches(doc, 1, "<script", "src=", name, TRUE)

cssBlock(content) ==
    <<"<style>", "\n", "/* Injected from style.css */", "\n">>
        \o content \o <<"\n", "</style>">>

jsBlock(name, content) ==
    <<"<script>", "\n", "/* Injected from " \o name \o " */", "\n">>
        \o content \o <<"\n", "</script>">>

\* lines 49-55
InjectCss(doc, block) ==
    IF Includes(doc, "</head>")
    THEN ReplaceFirst(doc, {"</head>"}, block \o <<"\n", "</head>">>)
    ELSE IF Includes(doc, "<body")
    THEN ReplaceFirst(doc, {"<body", "<BODY"}, block \o <<"\n", "<body">>)
    ELSE block \o <<"\n">> \o doc

\* lines 70-74
InjectJs(doc, block) ==
    IF Includes(doc, "</body>")
    THEN ReplaceFirst(doc, {"</body>"}, block \o <<"\n", "</body>">>)
    ELSE doc \o <<"\n">> \o block

\* find that takes the first File whatever its name
FindByNameLoose(fs, name) == IF fs # <<>> THEN 1 ELSE 0

\* project.files.find(f => f.name === name): the first one, 0 when none
FindByName(fs, name) ==
    IF \E i \in DOMAIN fs : fs[i].name = name
    THEN Min({i \in DOMAIN fs : fs[i].name = name})
    ELSE 0

\* a choice that prefers main.js
jsFileMainFirst(fs) ==
    IF FindByName(fs, <<"main.js">>) # 0
    THEN FindByName(fs, <<"main.js">>)
    ELSE FindByName(fs, <<"script.js">>)

\* find(script.js) || find(main.js): the index of the script merged, 0: none
jsFile(fs) ==
    IF FindByName(fs, <<"script.js">>) # 0
    THEN FindByName(fs, <<"script.js">>)
    ELSE FindByName(fs, <<"main.js">>)

\* the successive values of finalHtml (lines 40-80), index.html being there
MergeSteps(fs) ==
    LET index == fs[FindByName(fs, <<"index.html">>)].content
        css == FindByName(fs, <<"style.css">>)
        cssInjected == IF css = 0 THEN index
                       ELSE InjectCss(index, cssBlock(fs[css].content))
        linkRemoved == IF css = 0 THEN index ELSE RemoveLinkTags(cssInjected)
        js == jsFile(fs)
        jsInjected == IF js = 0 THEN linkRemoved
                      ELSE InjectJs(linkRemoved,
                                    jsBlock(fs[js].name[1], fs[js].content))
        scriptRemoved == IF js = 0 THEN linkRemoved
                         ELSE RemoveScriptTags(jsInjected, fs[js].name[1])
    IN  [index |-> index, cssInjected |-> cssInjected,
         linkRemoved |-> linkRemoved, jsInjected |-> jsInjected,
         finalHtml |-> scriptRemoved]

\* no archive built yet
NoZip == [mode |-> "none", name |-> <<>>, entries |-> <<>>]

NoSteps == [index |-> <<>>, cssInjected |-> <<>>, linkRemoved |-> <<>>,
            jsInjected |-> <<>>, finalHtml |-> <<>>]

----------------------------------------------------------------------------
(* FileExplorer *)

\* what the user can type into the two name inputs
NameInputs == { <<>>, <<" ">>, <<" ", "a">> }

FileById(fs, id) == fs[CHOOSE i \in DOMAIN fs : fs[i].id = id]

\* A row of the tree is rendered when every ancestor up to root is a rendered
\* and expanded directory (renderTree recurses only from root, through the
\* directories of expandedFolders, line 293).
RECURSIVE Rendered(_, _, _)
Rendered(fs, id, fuel) ==
    /\ fuel > 0
    /\ id \in Ids(fs)
    /\ LET p == FileById(fs, id).parentId
       IN  \/ p = root
           \/ /\ IsDirectoryId(fs, p)
              /\ p \in expandedFolders
              /\ Rendered(fs, p, fuel - 1)

\* toggleFolder (lines 117-119): the ids whose entry is true
toggleFolder(folderId) ==
    IF folderId \in expandedFolders
    THEN expandedFolders \ {folderId}
    ELSE expandedFolders \cup {folderId}

\* a click outside the two inputs blurs them: the rename form closes
\* (onBlur, line 237) and an add form whose name is empty closes (line 342)
BlurAdd == IF addingType # Null /\ newItemName = <<>> THEN Null ELSE addingType

NoModal == fileToDelete = Null

\* lastOp records the tree-manager call the last handler made, if any
NoOp == [op |-> "none", id |-> Null, removed |-> 0]

ClickRoot ==
    /\ NoModal
    /\ activeFolderId' = root
    /\ editingId' = Null
    /\ addingType' = BlurAdd
    /\ lastOp' = NoOp
    /\ UNCHANGED <<files, nextId, newItemName, editName, fileToDelete, items>>
    /\ UNCHANGED <<expandedFolders, importVars, storeVars, exportVars, walkVars, aiVars>>

\* onClick of a row (lines 251-259); onSelectFile does not touch the tree
ClickRow(id) ==
    /\ NoModal
    /\ Rendered(files, id, Len(files))
    /\ activeFolderId' = IF Truthy(FileById(files, id).isDirectory)
                         THEN id ELSE activeFolderId
    /\ expandedFolders' = IF Truthy(FileById(files, id).isDirectory)
                          THEN toggleFolder(id) ELSE expandedFolders
    /\ editingId' = Null
    /\ addingType' = BlurAdd
    /\ lastOp' = NoOp
    /\ UNCHANGED <<files, nextId, newItemName, editName, fileToDelete, items>>
    /\ UNCHANGED <<importVars, storeVars, exportVars, walkVars, aiVars>>

\* the File / Folder buttons (lines 349-362), shown while no add form is open
StartAdd(type) ==
    /\ NoModal
    /\ addingType = Null
    /\ addingType' = type
    /\ editingId' = Null
    /\ lastOp' = NoOp
    /\ UNCHANGED <<files, nextId, activeFolderId, newItemName, editName,
                   fileToDelete, items>>
    /\ UNCHANGED <<expandedFolders, importVars, storeVars, exportVars, walkVars, aiVars>>

\* onChange of the add form's input (line 338)
TypeNewItemName(s) ==
    /\ NoModal
    /\ addingType # Null
    /\ s # newItemName
    /\ newItemName' = s
    /\ editingId' = Null
    /\ lastOp' = NoOp
    /\ UNCHANGED <<files, nextId, activeFolderId, addingType, editName,
                   fileToDelete, items>>
    /\ UNCHANGED <<expandedFolders, importVars, storeVars, exportVars, walkVars, aiVars>>

\* the add form's cancel button (line 344)
CancelAdd ==
    /\ NoModal
    /\ addingType # Null
    /\ addingType' = Null
    /\ editingId' = Null
    /\ lastOp' = NoOp
    /\ UNCHANGED <<files, nextId, activeFolderId, newItemName, editName,
                   fileToDelete, items>>
    /\ UNCHANGED <<expandedFolders, importVars, storeVars, exportVars, walkVars, aiVars>>

\* a create handler that passes the input on as it is
handleCreateSubmitUnchecked ==
    /\ NoModal
    /\ addingType # Null
    /\ nextId <= MaxId
    /\ editingId' = Null
    /\ files' = addFile(files, activeFolderId, newItemName, <<>>,
                        addingType = "folder", ToString(nextId))
    /\ nextId' = IF files' # files THEN nextId + 1 ELSE nextId
    /\ newItemName' = <<>>
    /\ addingType' = Null
    /\ expandedFolders' = expandedFolders \cup {activeFolderId}
    /\ lastOp' = [op |-> "addFile", id |-> activeFolderId, removed |-> 0]
    /\ UNCHANGED <<activeFolderId, editName, fileToDelete, items>>
    /\ UNCHANGED <<importVars, storeVars, exportVars, walkVars, aiVars>>

handleCreateSubmit ==
    /\ NoModal
    /\ addingType # Null
    /\ nextId <= MaxId
    /\ editingId' = Null
    /\ IF Trim(newItemName) # <<>>
       THEN /\ files' = addFile(files, activeFolderId, Trim(newItemName), <<>>,
                                addingType = "folder", ToString(nextId))
            /\ nextId' = IF files' # files THEN nextId + 1 ELSE nextId
            /\ newItemName' = <<>>
            /\ addingType' = Null
            /\ expandedFolders' = expandedFolders \cup {activeFolderId}
            /\ lastOp' = [op |-> "addFile", id |-> activeFolderId, removed |-> 0]
       ELSE /\ lastOp' = NoOp
            /\ UNCHANGED <<files, nextId, newItemName, addingType,
                           expandedFolders>>
    /\ UNCHANGED <<activeFolderId, editName, fileToDelete, items>>
    /\ UNCHANGED <<importVars, storeVars, exportVars, walkVars, aiVars>>

startRename(id) ==
    /\ NoModal
    /\ Rendered(files, id, Len(files))
    /\ editingId' = id
    /\ editName' = FileById(files, id).name
    /\ addingType' = BlurAdd
    /\ lastOp' = NoOp
    /\ UNCHANGED <<files, nextId, activeFolderId, newItemName, fileToDelete, items>>
    /\ UNCHANGED <<expandedFolders, importVars, storeVars, exportVars, walkVars, aiVars>>

\* onChange of the rename input (line 234)
TypeEditName(s) ==
    /\ NoModal
    /\ editingId # Null
    /\ s # editName
    /\ editName' = s
    /\ lastOp' = NoOp
    /\ UNCHANGED <<files, nextId, activeFolderId, addingType, newItemName,
                   editingId, fileToDelete, items>>
    /\ UNCHANGED <<expandedFolders, importVars, storeVars, exportVars, walkVars, aiVars>>

submitRename ==
    /\ NoModal
    /\ editingId # Null
    /\ IF Trim(editName) # <<>>
       THEN /\ files' = renameFile(files, editingId, Trim(editName))
            /\ editingId' = Null
            /\ lastOp' = [op |-> "renameFile", id |-> editingId, removed |-> 0]
       ELSE /\ lastOp' = NoOp
            /\ UNCHANGED <<files, editingId>>
    /\ UNCHANGED <<nextId, activeFolderId, addingType, newItemName, editName,
                   fileToDelete, items>>
    /\ UNCHANGED <<expandedFolders, importVars, storeVars, exportVars, walkVars, aiVars>>

\* the trash button of a row (lines 280-283)
AskDelete(id) ==
    /\ NoModal
    /\ Rendered(files, id, Len(files))
    /\ fileToDelete' = id
    /\ editingId' = Null
    /\ addingType' = BlurAdd
    /\ lastOp' = NoOp
    /\ UNCHANGED <<files, nextId, activeFolderId, newItemName, editName, items>>
    /\ UNCHANGED <<expandedFolders, importVars, storeVars, exportVars, walkVars, aiVars>>

\* Cancel in the delete modal (line 394)
CancelDelete ==
    /\ fileToDelete # Null
    /\ fileToDelete' = Null
    /\ lastOp' = NoOp
    /\ UNCHANGED <<files, nextId, activeFolderId, addingType, newItemName,
                   editingId, editName, items>>
    /\ UNCHANGED <<expandedFolders, importVars, storeVars, exportVars, walkVars, aiVars>>

\* Delete in the delete modal (line 400)
ConfirmDelete ==
    /\ fileToDelete # Null
    /\ files' = deleteFile(files, fileToDelete)
    /\ fileToDelete' = Null
    /\ lastOp' = [op |-> "deleteFile", id |-> fileToDelete,
                  removed |-> Len(files) - Len(files')]
    /\ UNCHANGED <<nextId, activeFolderId, addingType, newItemName,
                   editingId, editName, items>>
    /\ UNCHANGED <<expandedFolders, importVars, storeVars, exportVars, walkVars, aiVars>>

----------------------------------------------------------------------------
(* The explorer specification: a project as createProject makes it, edited *)
(* through the FileExplorer.                                               *)

ProjectTypes == {"html", "php"}

\* lastDup records the last duplicateProject call: its argument, the
\* original's files and the copy's files
NoDup == [done |-> FALSE, id |-> Null, original |-> <<>>, copy |-> <<>>]

StoreIdle ==
    /\ store = <<>>
    /\ now = 1
    /\ lastDup = NoDup

ExportIdle ==
    /\ project = [name |-> <<>>, files |-> <<>>]
    /\ isSingleFile = FALSE
    /\ isZipping = FALSE
    /\ successMsg = Null
    /\ errorMsg = Null
    /\ zip = NoZip
    /\ htmlSteps = NoSteps
    /\ downloads = <<>>

ExplorerIdle ==
    /\ nextId = 4
    /\ activeFolderId = root
    /\ addingType = Null
    /\ newItemName = <<>>
    /\ editingId = Null
    /\ editName = <<>>
    /\ fileToDelete = Null
    /\ expandedFolders = {root}
    /\ items = <<>>
    /\ lastOp = NoOp
    /\ isUploading = FALSE
    /\ uploadProgress = 0
    /\ fileList = <<>>
    /\ processed = 0
    /\ importFolder = root

\* no traversal is running
WalkIdle ==
    /\ calls = <<>>
    /\ callError = Null

\* the editor with its AI dialog closed
AiIdle ==
    /\ showAiModal = FALSE
    /\ aiLoading = FALSE
    /\ aiError = Null
    /\ streamingCode = <<>>
    /\ fullContent = <<>>
    /\ buffer = <<>>
    /\ stream = <<>>
    /\ pending = <<>>
    /\ changes = <<>>
    /\ aiPhase = "idle"

\* The explorer is mounted on the files of the opened project: a new project,
\* or one that already holds a folder within a folder.
NestedFiles ==
    << File("1", <<"a">>, <<>>, "html", root, "true"),
       File("2", <<"a">>, <<>>, "html", "1", "true"),
       File("3", <<"index.html">>, <<>>, "html", "2", "false") >>

OpenedFiles == {createProjectFiles(<<"P">>, "html"), NestedFiles}

Init ==
    /\ files \in OpenedFiles
    /\ ExplorerIdle
    /\ WalkIdle
    /\ AiIdle
    /\ StoreIdle
    /\ ExportIdle

Next ==
    \/ ClickRoot
    \/ \E id \in Ids(files) : ClickRow(id)
    \/ \E type \in {"file", "folder"} : StartAdd(type)
    \/ \E s \in NameInputs : TypeNewItemName(s)
    \/ CancelAdd
    \/ handleCreateSubmit
    \/ \E id \in Ids(files) : startRename(id)
    \/ \E s \in NameInputs : TypeEditName(s)
    \/ submitRename
    \/ \E id \in Ids(files) : AskDelete(id)
    \/ CancelDelete
    \/ ConfirmDelete

Spec == Init /\ [][Next]_vars

----------------------------------------------------------------------------
(* Tree integrity *)

ParentsResolve(fs) ==
    \A i \in DOMAIN fs : fs[i].parentId = root \/ IsDirectoryId(fs, fs[i].parentId)

\* id is target or lies below it, following parentId upwards at most fuel times
RECURSIVE IsUnder(_, _, _, _)
IsUnder(fs, id, target, fuel) ==
    \/ id = target
    \/ /\ fuel > 0
       /\ id \in Ids(fs)
       /\ IsUnder(fs, FileById(fs, id).parentId, target, fuel - 1)

\* no File is its own ancestor: every parent chain ends at root
Acyclic(fs) == \A i \in DOMAIN fs : IsUnder(fs, fs[i].id, root, Len(fs))

\* C1: after any sequence of addFile, deleteFile and renameFile the parent
\* graph is acyclic and every parentId is root or the id of an existing
\* directory of the project.
C1_TreeWellFormed == ParentsResolve(files) /\ Acyclic(files)

\* an add was issued while the active folder no longer exists
C1_Witness ==
    /\ lastOp.op = "addFile"
    /\ activeFolderId \notin Ids(files) \cup {root}

\* C2: deleteFile removes exactly the target and its transitive descendants:
\* what is left is every other File, unchanged and in place, and no parentId
\* dangles.
C2_DeleteExact ==
    [][ (fileToDelete # Null /\ fileToDelete' = Null /\ lastOp'.op = "deleteFile")
        => /\ files' = SelectSeq(files,
                  LAMBDA f : ~IsUnder(files, f.id, fileToDelete, Len(files)))
           /\ ParentsResolve(files') ]_vars

\* a directory went together with its child and its grandchild, and an
\* unrelated File is still there
C2_Witness ==
    /\ lastOp.op = "deleteFile"
    /\ lastOp.removed >= 3
    /\ files # <<>>

----------------------------------------------------------------------------
(* The store specification: projects are created, edited, duplicated and   *)
(* deleted in the persisted store.                                         *)

ProjectNames == { <<"P">> }

StoredIds == {store[i].id : i \in DOMAIN store}

\* Date.now() moves on
Tick ==
    /\ now < MaxNow
    /\ now' = now + 1
    /\ UNCHANGED <<store, lastDup>>
    /\ UNCHANGED <<explorerVars, exportVars, walkVars, aiVars>>

\* createProject followed by saveProject
CreateAndSave(name, type) ==
    /\ Len(store) < MaxProjects
    /\ store' = saveProject(store, createProject(name, type, now))
    /\ lastDup' = NoDup
    /\ UNCHANGED now
    /\ UNCHANGED <<explorerVars, exportVars, walkVars, aiVars>>

\* the editor adds a file or a folder to an opened project and saves it
EditAndSave(i, parentId, isDir) ==
    /\ i \in DOMAIN store
    /\ Len(store[i].files) < MaxStoreFiles
    /\ LET p == store[i]
           fs == addFile(p.files, parentId, <<"a">>, <<>>, isDir,
                         ToString(Len(p.files) + 1))
       IN  /\ fs # p.files
           /\ store' = saveProject(store, [p EXCEPT !.files = fs,
                                                    !.lastModified = now])
    /\ lastDup' = NoDup
    /\ UNCHANGED now
    /\ UNCHANGED <<explorerVars, exportVars, walkVars, aiVars>>

DuplicateProject(id) ==
    /\ Len(store) < MaxProjects
    /\ LET index == FindIndex(store, id)
       IN  IF index = 0
           THEN /\ lastDup' = [NoDup EXCEPT !.done = TRUE, !.id = id]
                /\ UNCHANGED store
           ELSE LET original == store[index]
                    draws == FreshDraws(store, now)
                    newProject == duplicateOf(original, now, draws)
                IN  /\ Len(original.name) < MaxNameLen
                    /\ Len(draws) >= Len(original.files)
                    \* projects.unshift(newProject)
                    /\ store' = <<newProject>> \o store
                    /\ lastDup' = [done |-> TRUE, id |-> id,
                                   original |-> original.files,
                                   copy |-> newProject.files]
    /\ UNCHANGED now
    /\ UNCHANGED <<explorerVars, exportVars, walkVars, aiVars>>

DeleteProject(id) ==
    /\ store' = deleteProject(store, id)
    /\ store' # store
    /\ lastDup' = NoDup
    /\ UNCHANGED now
    /\ UNCHANGED <<explorerVars, exportVars, walkVars, aiVars>>

StoreInit ==
    /\ StoreIdle
    /\ files = <<>>
    /\ ExplorerIdle
    /\ WalkIdle
    /\ AiIdle
    /\ ExportIdle

StoreNext ==
    \/ Tick
    \/ \E name \in ProjectNames, type \in ProjectTypes : CreateAndSave(name, type)
    \/ \E i \in DOMAIN store, parentId \in AllFileIds(store) \cup {root},
          isDir \in BOOLEAN : EditAndSave(i, parentId, isDir)
    \/ \E id \in StoredIds \cup {"unknown"} : DuplicateProject(id)
    \/ \E id \in StoredIds : DeleteProject(id)

SpecStore == StoreInit /\ [][StoreNext]_vars

\* the copy's ids are pairwise distinct and none is an id of the original
DupIdsFresh(original, copy) ==
    /\ Len(copy) = Len(original)
    /\ \A i, j \in DOMAIN copy : i # j => copy[i].id # copy[j].id
    /\ Ids(copy) \cap Ids(original) = {}

\* the copy of a child of A is a child of the copy of A; root stays root
DupKeepsParents(original, copy) ==
    /\ Len(copy) = Len(original)
    /\ \A j \in DOMAIN original :
          /\ original[j].parentId = root => copy[j].parentId = root
          /\ \A i \in DOMAIN original :
                original[j].parentId = original[i].id
                    => copy[j].parentId = copy[i].id

\* C3: duplicateProject of an existing project yields File ids that are
\* pairwise distinct and disjoint from the original's, and keeps every
\* parent-child relationship between the copies.
C3_DuplicateKeepsTree ==
    (lastDup.done /\ lastDup.original # <<>>)
        => /\ DupIdsFresh(lastDup.original, lastDup.copy)
           /\ DupKeepsParents(lastDup.original, lastDup.copy)

\* what the code does keep of C3: fresh ids, every other field as it was
C3_IdsFreshOnly ==
    (lastDup.done /\ lastDup.original # <<>>)
        => /\ DupIdsFresh(lastDup.original, lastDup.copy)
           /\ \A i \in DOMAIN lastDup.original :
                 lastDup.copy[i] = [lastDup.original[i] EXCEPT !.id = lastDup.copy[i].id]

----------------------------------------------------------------------------
(* ApkBuilder: the export panel *)

MaxDownloads == 1
MaxExportFiles == 3

MissingIndexMessage == "Project must contain 'index.html' for Single File conversion."
RejectMessages == {"Failed to export project.", "generateAsync failed"}

\* exportProject that writes the tree in single-file mode too
BuildZipWithTree(p, single, finalHtml) ==
    [mode |-> IF single THEN "single" ELSE "standard",
     name |-> safeProjectName(p.name),
     entries |-> IF single
                 THEN ZipFile(StandardArchive(p), <<safeProjectName(p.name)>>,
                              <<"index.html">>, finalHtml, FALSE)
                 ELSE StandardArchive(p)]

\* the entries the synchronous part of exportProject puts in the archive
BuildZip(p, single, finalHtml) ==
    LET safe == safeProjectName(p.name)
        rootFolder == ZipFolder(<<>>, <<>>, safe)
    IN  IF single
        THEN [mode |-> "single", name |-> safe,
              entries |-> ZipFile(rootFolder, <<safe>>, <<"index.html">>,
                                  finalHtml, FALSE)]
        ELSE [mode |-> "standard", name |-> safe,
              entries |-> StandardArchive(p)]

\* exportProject without lines 19-20: the messages of the last run stay
ExportClickKeepMessages ==
    /\ ~isZipping
    /\ Len(downloads) < MaxDownloads
    /\ UNCHANGED successMsg
    /\ IF isSingleFile /\ FindByName(project.files, <<"index.html">>) = 0
       THEN /\ isZipping' = FALSE
            /\ errorMsg' = MissingIndexMessage
            /\ zip' = [mode |-> "single", name |-> safeProjectName(project.name),
                       entries |-> ZipFolder(<<>>, <<>>, safeProjectName(project.name))]
            /\ htmlSteps' = NoSteps
       ELSE /\ isZipping' = TRUE
            /\ UNCHANGED errorMsg
            /\ htmlSteps' = IF isSingleFile THEN MergeSteps(project.files) ELSE NoSteps
            /\ zip' = BuildZip(project, isSingleFile, htmlSteps'.finalHtml)
    /\ UNCHANGED <<project, isSingleFile, downloads>>
    /\ UNCHANGED <<explorerVars, storeVars, walkVars, aiVars>>

\* a click on the export button: exportProject up to its await, or, when
\* index.html is missing in single-file mode, up to its end
ExportClick ==
    /\ ~isZipping
    /\ Len(downloads) < MaxDownloads
    /\ successMsg' = Null
    /\ IF isSingleFile /\ FindByName(project.files, <<"index.html">>) = 0
       THEN /\ isZipping' = FALSE
            /\ errorMsg' = MissingIndexMessage
            /\ zip' = [mode |-> "single", name |-> safeProjectName(project.name),
                       entries |-> ZipFolder(<<>>, <<>>, safeProjectName(project.name))]
            /\ htmlSteps' = NoSteps
       ELSE /\ isZipping' = TRUE
            /\ errorMsg' = Null
            /\ htmlSteps' = IF isSingleFile THEN MergeSteps(project.files) ELSE NoSteps
            /\ zip' = BuildZip(project, isSingleFile, htmlSteps'.finalHtml)
    /\ UNCHANGED <<project, isSingleFile, downloads>>
    /\ UNCHANGED <<explorerVars, storeVars, walkVars, aiVars>>

\* a resolve that packs the project as it is when generateAsync resolves
GenerateResolveLate ==
    /\ isZipping
    /\ LET late == BuildZip(project, isSingleFile,
                            IF isSingleFile /\ FindByName(project.files, <<"index.html">>) # 0
                            THEN MergeSteps(project.files).finalHtml ELSE <<>>)
       IN  downloads' = Append(downloads, [filename |-> late.name \o <<".zip">>,
                                           entries |-> late.entries])
    /\ successMsg' = "Export Successful!"
    /\ isZipping' = FALSE
    /\ UNCHANGED <<project, isSingleFile, errorMsg, zip, htmlSteps>>
    /\ UNCHANGED <<explorerVars, storeVars, walkVars, aiVars>>

\* generateAsync resolves: the download is triggered, then the success message
GenerateResolve ==
    /\ isZipping
    /\ downloads' = Append(downloads, [filename |-> zip.name \o <<".zip">>,
                                       entries |-> zip.entries])
    /\ successMsg' = "Export Successful!"
    /\ isZipping' = FALSE
    /\ UNCHANGED <<project, isSingleFile, errorMsg, zip, htmlSteps>>
    /\ UNCHANGED <<explorerVars, storeVars, walkVars, aiVars>>

\* a rejection that still hands the archive built so far to the browser
GenerateRejectPartial(message) ==
    /\ isZipping
    /\ errorMsg' = message
    /\ isZipping' = FALSE
    /\ downloads' = Append(downloads, [filename |-> zip.name \o <<".zip">>,
                                       entries |-> zip.entries])
    /\ UNCHANGED <<project, isSingleFile, successMsg, zip, htmlSteps>>
    /\ UNCHANGED <<explorerVars, storeVars, walkVars, aiVars>>

\* generateAsync rejects
GenerateReject(message) ==
    /\ isZipping
    /\ errorMsg' = message
    /\ isZipping' = FALSE
    /\ UNCHANGED <<project, isSingleFile, successMsg, zip, htmlSteps, downloads>>
    /\ UNCHANGED <<explorerVars, storeVars, walkVars, aiVars>>

\* the single-file switch
ToggleSingleFile ==
    /\ isSingleFile' = ~isSingleFile
    /\ UNCHANGED <<project, isZipping, successMsg, errorMsg, zip, htmlSteps, downloads>>
    /\ UNCHANGED <<explorerVars, storeVars, walkVars, aiVars>>

ExportNext ==
    \/ ExportClick
    \/ GenerateResolve
    \/ \E message \in RejectMessages : GenerateReject(message)
    \/ ToggleSingleFile

\* the projects handed to the panel: up to MaxExportFiles Files, File i with
\* id i, a parent among root and the earlier Files, and one of five shapes
ExportNames == { <<"a">>, <<"b">> }
ExportShapes == {"dir", "text", "image1", "image2", "font0"}

ExportFileAt(i, name, parentId, shape) ==
    CASE shape = "dir" -> File(ToString(i), name, <<>>, "plaintext", parentId, "true")
      [] shape = "text" -> File(ToString(i), name, <<"t">>, "plaintext", parentId, "false")
      [] shape = "image1" ->
           File(ToString(i), name, <<"data:", "m", ",", "AB">>, "image", parentId, "false")
      [] shape = "image2" ->
           File(ToString(i), name, <<"data:", "m", ",", "AB", ",", "CD">>, "image",
                parentId, "false")
      [] OTHER -> File(ToString(i), name, <<"data:", "m">>, "font", parentId, "false")

RECURSIVE ExportFiles(_)
ExportFiles(n) ==
    IF n = 0 THEN { <<>> }
    ELSE { Append(fs, ExportFileAt(n, name, parentId, shape)) :
             fs \in ExportFiles(n - 1), name \in ExportNames,
             parentId \in {root} \cup {ToString(k) : k \in 1..(n - 1)},
             shape \in ExportShapes }

\* a created html project to which a folder with an image in it was added
ExampleFiles ==
    createProjectFiles(<<"P">>, "html") \o
    << File("4", <<"assets">>, <<>>, "plaintext", root, "true"),
       File("5", <<"logo.png">>, <<"data:", "image/png;base64", ",", "AB">>,
            "image", "4", "false") >>

\* ... and the two projects createProject makes, and the example
ExportProjects ==
    { [name |-> <<"P">>, files |-> fs] :
        fs \in UNION { ExportFiles(n) : n \in 0..MaxExportFiles }
                  \cup { createProjectFiles(<<"P">>, type) : type \in ProjectTypes }
                  \cup { ExampleFiles } }

ExportInit ==
    /\ files = <<>>
    /\ ExplorerIdle
    /\ WalkIdle
    /\ AiIdle
    /\ StoreIdle
    /\ project \in ExportProjects
    /\ isSingleFile = FALSE
    /\ isZipping = FALSE
    /\ successMsg = Null
    /\ errorMsg = Null
    /\ zip = NoZip
    /\ htmlSteps = NoSteps
    /\ downloads = <<>>

SpecExport == ExportInit /\ [][ExportNext]_vars

----------------------------------------------------------------------------
(* Standard export: the archive against the tree *)

\* the names from the root down to the File id, following parentId upwards
RECURSIVE PathOf(_, _, _)
PathOf(fs, id, fuel) ==
    IF id = root \/ fuel = 0 \/ id \notin Ids(fs) THEN <<>>
    ELSE Append(PathOf(fs, FileById(fs, id).parentId, fuel - 1), FileById(fs, id).name)

DistinctSiblingNames(fs) ==
    \A i, j \in DOMAIN fs :
        (i # j /\ fs[i].parentId = fs[j].parentId) => fs[i].name # fs[j].name

\* the data-model invariants and distinct sibling names
TreeWellFormed(fs) ==
    ParentsResolve(fs) /\ Acyclic(fs) /\ DistinctSiblingNames(fs)

\* every image or font content that starts with the data-URI prefix has a comma
DataUrisWellFormed(fs) ==
    \A i \in DOMAIN fs :
        (IsBinary(fs[i]) /\ StartsWithData(fs[i].content)) => "," \in Range(fs[i].content)

\* the path and kind of the entry the tree asks for, one per File, and the
\* top-level folder
ExpectedEntries(p) ==
    { << <<safeProjectName(p.name)>>, TRUE >> } \cup
    { << <<safeProjectName(p.name)>> \o PathOf(p.files, p.files[i].id, Len(p.files)),
         Truthy(p.files[i].isDirectory) >> : i \in DOMAIN p.files }

RECURSIVE AfterFirstComma(_)
AfterFirstComma(content) ==
    IF content = <<>> THEN <<>>
    ELSE IF Head(content) = "," THEN Tail(content)
         ELSE AfterFirstComma(Tail(content))

\* C5: for an image or font File whose content starts with the data-URI
\* prefix, the entry's payload is the whole remainder of the content after
\* its first comma, base64-decoded, also when the content has more commas.
C5_PayloadAfterFirstComma ==
    (zip.mode = "standard" /\ TreeWellFormed(project.files))
    => \A i \in DOMAIN project.files :
          LET f == project.files[i]
          IN  (/\ ~Truthy(f.isDirectory)
               /\ IsBinary(f)
               /\ StartsWithData(f.content)
               /\ "," \in Range(f.content))
              => \E k \in DOMAIN zip.entries :
                    /\ zip.entries[k].path =
                          <<zip.name>> \o PathOf(project.files, f.id, Len(project.files))
                    /\ ~zip.entries[k].dir
                    /\ zip.entries[k].base64
                    /\ zip.entries[k].data = AfterFirstComma(f.content)

\* the place of a lexeme in code-unit order: ten times the UTF-16 code unit
\* of its first character, plus its rank among the lexemes that share it
CodeUnit(c) ==
    CASE c = "A" -> 650 [] c = "B" -> 660 [] c = "a" -> 970 [] c = "assets" -> 971
      [] c = "b" -> 980 [] c = "index.html" -> 1050 [] c = "index.php" -> 1051
      [] c = "logo.png" -> 1080 [] c = "main.js" -> 1090
      [] c = "script.js" -> 1150 [] c = "style.css" -> 1151

\* s before t in case-sensitive ordinal order
RECURSIVE OrdinalLess(_, _)
OrdinalLess(s, t) ==
    IF t = <<>> THEN FALSE
    ELSE IF s = <<>> THEN TRUE
    ELSE IF Head(s) # Head(t) THEN CodeUnit(Head(s)) < CodeUnit(Head(t))
    ELSE OrdinalLess(Tail(s), Tail(t))

ParentPath(path) == SubSeq(path, 1, Len(path) - 1)

\* C9: in standard export the children of every directory, and of root, are
\* visited in listChildren order: among the entries of one folder every
\* folder comes before every file and, within each group, names ascend;
\* so the sequence of entries does not depend on the insertion order.
C9_ExportInListOrder ==
    (zip.mode = "standard" /\ TreeWellFormed(project.files))
    => \A i, j \in DOMAIN zip.entries :
          (/\ i < j
           /\ Len(zip.entries[i].path) > 1
           /\ ParentPath(zip.entries[i].path) = ParentPath(zip.entries[j].path))
          => \/ zip.entries[i].dir /\ ~zip.entries[j].dir
             \/ /\ zip.entries[i].dir = zip.entries[j].dir
                /\ OrdinalLess(zip.entries[i].path[Len(zip.entries[i].path)],
                               zip.entries[j].path[Len(zip.entries[j].path)])

----------------------------------------------------------------------------
(* FileExplorer: renderTree's child listing *)

MaxListFiles == 3

\* collation keys of a character: the letter, then the case (lower first)
PrimaryKey(c) == CASE c \in {"a", "A"} -> 1 [] c \in {"b", "B"} -> 2
TertiaryKey(c) == IF c \in {"a", "b"} THEN 0 ELSE 1

\* lexicographic comparison of two key sequences: -1, 0 or 1
RECURSIVE CompareKeys(_, _)
CompareKeys(s, t) ==
    IF s = <<>> /\ t = <<>> THEN 0
    ELSE IF s = <<>> THEN -1
    ELSE IF t = <<>> THEN 1
    ELSE IF Head(s) < Head(t) THEN -1
    ELSE IF Head(s) > Head(t) THEN 1
    ELSE CompareKeys(Tail(s), Tail(t))

\* String.prototype.localeCompare: letters decide, case breaks the tie
localeCompare(s, t) ==
    LET primary == CompareKeys([i \in DOMAIN s |-> PrimaryKey(s[i])],
                               [i \in DOMAIN t |-> PrimaryKey(t[i])])
    IN  IF primary # 0 THEN primary
        ELSE CompareKeys([i \in DOMAIN s |-> TertiaryKey(s[i])],
                         [i \in DOMAIN t |-> TertiaryKey(t[i])])

\* the comparator of lines 222-225; === tells false from an absent field
Comparator(a, b) ==
    IF a.isDirectory = b.isDirectory THEN localeCompare(a.name, b.name)
    ELSE IF Truthy(a.isDirectory) THEN -1 ELSE 1

\* Array.prototype.sort's condition on its comparator, over the items sorted
ConsistentComparator(its) ==
    /\ \A i, j \in DOMAIN its :
          /\ (Comparator(its[i], its[j]) < 0) = (Comparator(its[j], its[i]) > 0)
          /\ (Comparator(its[i], its[j]) = 0) = (Comparator(its[j], its[i]) = 0)
    /\ \A i, j, k \in DOMAIN its :
          (Comparator(its[i], its[j]) <= 0 /\ Comparator(its[j], its[k]) <= 0)
          => Comparator(its[i], its[k]) <= 0

Bijections(n) == {p \in [1..n -> 1..n] : \A i, j \in 1..n : p[i] = p[j] => i = j}

\* Array.prototype.sort: stable under a consistent comparator, and an
\* implementation-defined order of the same items under any other
SortOutcomes(its) ==
    LET perms == Bijections(Len(its))
        stable == {p \in perms :
                     \A i, j \in DOMAIN its :
                        i < j => \/ Comparator(its[p[i]], its[p[j]]) < 0
                                 \/ /\ Comparator(its[p[i]], its[p[j]]) = 0
                                    /\ p[i] < p[j]}
    IN  {[i \in DOMAIN its |-> its[p[i]]] :
            p \in IF ConsistentComparator(its) THEN stable ELSE perms}

\* renderTree(parentId): the rows of one folder
RenderTree(parentId) ==
    /\ items' \in SortOutcomes(FilterByParent(files, parentId))
    /\ lastOp' = [op |-> "renderTree", id |-> parentId, removed |-> 0]
    /\ UNCHANGED <<files, nextId, activeFolderId, addingType, newItemName,
                   editingId, editName, fileToDelete>>
    /\ UNCHANGED <<expandedFolders, importVars, storeVars, exportVars, walkVars, aiVars>>

\* the file sets listed: up to MaxListFiles Files in root or in File 1, with
\* the three values the isDirectory field takes
ListNames == { <<"a">>, <<"B">> }

RECURSIVE ListedFiles(_)
ListedFiles(n) ==
    IF n = 0 THEN { <<>> }
    ELSE { Append(fs, File(ToString(n), name, <<>>, "plaintext", parentId, isDir)) :
             fs \in ListedFiles(n - 1), name \in ListNames,
             parentId \in {root, "1"}, isDir \in IsDirectoryValues }

ListInit ==
    /\ files \in UNION { ListedFiles(n) : n \in 0..MaxListFiles }
    /\ ExplorerIdle
    /\ WalkIdle
    /\ AiIdle
    /\ StoreIdle
    /\ ExportIdle

ListNext == \E parentId \in {root} \cup Ids(files) : RenderTree(parentId)

SpecList == ListInit /\ [][ListNext]_vars

\* C10: the child listing holds exactly the Files whose parentId is the id
\* asked for, every directory before every non-directory, names within each
\* group in ascending case-sensitive ordinal order; so it does not depend on
\* the insertion order of the file set.
C10_ListingSorted ==
    lastOp.op = "renderTree"
    => /\ \E p \in Bijections(Len(items)) :
             FilterByParent(files, lastOp.id) = [i \in DOMAIN items |-> items[p[i]]]
       /\ \A i, j \in DOMAIN items :
             i < j => /\ ~(~Truthy(items[i].isDirectory) /\ Truthy(items[j].isDirectory))
                      /\ (Truthy(items[i].isDirectory) = Truthy(items[j].isDirectory))
                            => ~OrdinalLess(items[j].name, items[i].name)

----------------------------------------------------------------------------
(* Single-file export: the projects merged *)

MaxPieces == 3

LinkTag(value) ==
    <<"<link", " ", "rel=\"stylesheet\"", " ", "href=", "\"">> \o value \o <<"\"", ">">>

ScriptTag(value) ==
    <<"<script", " ", "src=", "\"">> \o value \o <<"\"", ">", "</script>">>

\* what an index.html is made of
DocPieces ==
    { <<"</head>">>, <<"<body", ">">>, <<"<BODY", ">">>, <<"</body>">>,
      LinkTag(<<"style.css">>), LinkTag(<<"css/", "style.css">>),
      LinkTag(<<"cdn/", "other.css">>), <<"<link", " ", "href=", "style.css", ">">>,
      ScriptTag(<<"script.js">>), ScriptTag(<<"js/", "script.js">>),
      ScriptTag(<<"cdn/", "lib.js">>), ScriptTag(<<"main.js">>) }

RECURSIVE Docs(_)
Docs(n) ==
    IF n = 0 THEN { <<>> }
    ELSE Docs(n - 1) \cup { d \o piece : d \in Docs(n - 1), piece \in DocPieces }

\* a style sheet and a script that hold a dollar sign before a quote
cssDollar == <<".price::before { content: '", "$'", "; }">>
jsDollar == <<"label.textContent = '", "$'", " + price;">>

CssFiles ==
    { <<>> } \cup
    { <<File("2", <<"style.css">>, content, "css", root, "absent")>> :
         content \in {styleContent, cssDollar} }

\* what a main.js holds
mainContent == <<"console.log('main');">>

JsFiles ==
    { <<>>,
      <<File("3", <<"main.js">>, mainContent, "javascript", root, "absent")>>,
      <<File("3", <<"main.js">>, mainContent, "javascript", root, "absent"),
        File("4", <<"script.js">>, jsContent, "javascript", root, "absent")>>,
      <<File("3", <<"script.js">>, jsContent, "javascript", root, "absent"),
        File("4", <<"main.js">>, mainContent, "javascript", root, "absent")>> } \cup
    { <<File("3", <<"script.js">>, content, "javascript", root, "absent")>> :
         content \in {jsContent, jsDollar} }

MergeProjects ==
    { [name |-> <<"P">>,
       files |-> <<File("1", <<"index.html">>, doc, "html", root, "absent")>>
                    \o css \o js] :
        doc \in Docs(MaxPieces) \cup {indexHtml(<<"P">>)},
        css \in CssFiles, js \in JsFiles }
    \cup { [name |-> <<"P">>, files |-> ExampleFiles] }

MergeInit ==
    /\ files = <<>>
    /\ ExplorerIdle
    /\ WalkIdle
    /\ AiIdle
    /\ StoreIdle
    /\ project \in MergeProjects
    /\ isSingleFile = TRUE
    /\ isZipping = FALSE
    /\ successMsg = Null
    /\ errorMsg = Null
    /\ zip = NoZip
    /\ htmlSteps = NoSteps
    /\ downloads = <<>>

\* the panel with the single-file switch left on
MergeNext ==
    \/ ExportClick
    \/ GenerateResolve
    \/ \E message \in RejectMessages : GenerateReject(message)

SpecMerge == MergeInit /\ [][MergeNext]_vars

----------------------------------------------------------------------------
(* Single-file export: the merged document against the files *)

\* sub occurs in doc as a run of consecutive lexemes
ContainsSeq(doc, sub) ==
    \E i \in 1..(Len(doc) - Len(sub) + 1) : SubSeq(doc, i, i + Len(sub) - 1) = sub

\* the attribute at h, inside a tag that closes at g, has a value that is
\* target or ends in "/" target (quoted, or bare without quotes)
OwnValue(doc, h, g, target) ==
    \/ /\ doc[h + 1] \in Quotes
       /\ \E q \in (h + 3)..(g - 1) :
             /\ doc[q] \in Quotes
             /\ \A x \in (h + 2)..(q - 1) : doc[x] \notin Quotes
             /\ doc[q - 1] = target
             /\ q - 1 = h + 2 \/ doc[q - 2] \in SlashLexemes
    \/ doc[h + 1] = target

\* where the element that starts at i and refers to target by its own
\* attribute ends (0: no such element starts at i)
OwnTagEnd(doc, i, open, attr, target, needClose) ==
    LET gs == {g \in (i + 1)..Len(doc) : doc[g] \in GtLexemes}
    IN  IF doc[i] # open \/ gs = {} THEN 0
        ELSE IF ~\E h \in (i + 1)..(Min(gs) - 2) :
                    doc[h] = attr /\ OwnValue(doc, h, Min(gs), target)
        THEN 0
        ELSE TailEnd(doc, Min(gs) - 1, needClose)

HasOwnTag(doc, open, attr, target, needClose) ==
    \E i \in DOMAIN doc : OwnTagEnd(doc, i, open, attr, target, needClose) # 0

\* doc without the elements that refer to target by their own attribute
RECURSIVE StripOwnTags(_, _, _, _, _, _)
StripOwnTags(doc, i, open, attr, target, needClose) ==
    LET starts == {k \in i..Len(doc) :
                      OwnTagEnd(doc, k, open, attr, target, needClose) # 0}
    IN  IF starts = {} THEN SubSeq(doc, i, Len(doc))
        ELSE SubSeq(doc, i, Min(starts) - 1)
                \o StripOwnTags(doc,
                                OwnTagEnd(doc, Min(starts), open, attr, target, needClose) + 1,
                                open, attr, target, needClose)

ContentOf(fs, name) == fs[FindByName(fs, name)].content

\* the name of the script file the merge takes, <<>> when there is none
ChosenScript(fs) ==
    IF FindByName(fs, <<"script.js">>) # 0 THEN <<"script.js">>
    ELSE IF FindByName(fs, <<"main.js">>) # 0 THEN <<"main.js">>
    ELSE <<>>

\* C6: in single-file mode, when the project has index.html, style.css and
\* script.js and index.html holds </head>, </body>, a link tag whose href is
\* style.css and a script element whose src is script.js, the merged
\* document has the style block right before </head>, the script block right
\* before </body>, and no link tag to style.css or script element with src
\* script.js is left.
C6_MergedDocument ==
    (/\ zip.mode = "single"
     /\ isZipping
     /\ FindByName(project.files, <<"style.css">>) # 0
     /\ FindByName(project.files, <<"script.js">>) # 0
     /\ Includes(htmlSteps.index, "</head>")
     /\ Includes(htmlSteps.index, "</body>")
     /\ HasOwnTag(htmlSteps.index, "<link", "href=", "style.css", FALSE)
     /\ HasOwnTag(htmlSteps.index, "<script", "src=", "script.js", TRUE))
    => /\ ContainsSeq(htmlSteps.finalHtml,
                      cssBlock(ContentOf(project.files, <<"style.css">>))
                         \o <<"\n", "</head>">>)
       /\ ContainsSeq(htmlSteps.finalHtml,
                      jsBlock("script.js", ContentOf(project.files, <<"script.js">>))
                         \o <<"\n", "</body>">>)
       /\ ~HasOwnTag(htmlSteps.finalHtml, "<link", "href=", "style.css", FALSE)
       /\ ~HasOwnTag(htmlSteps.finalHtml, "<script", "src=", "script.js", TRUE)

\* block put into doc before position pos
InsertAt(doc, pos, block) ==
    SubSeq(doc, 1, pos - 1) \o block \o SubSeq(doc, pos, Len(doc))

\* C7: when style.css exists the style block is injected at one place: right
\* before the first </head> if the document has one, otherwise right before
\* the first <body if it has one, otherwise at the very start; the rest of
\* the document is unchanged by the injection.
C7_InjectionPlace ==
    (/\ zip.mode = "single"
     /\ isZipping
     /\ FindByName(project.files, <<"style.css">>) # 0)
    => htmlSteps.cssInjected =
          InsertAt(htmlSteps.index,
                   IF Includes(htmlSteps.index, "</head>")
                   THEN FirstIndex(htmlSteps.index, {"</head>"})
                   ELSE IF Includes(htmlSteps.index, "<body")
                   THEN FirstIndex(htmlSteps.index, {"<body"})
                   ELSE 1,
                   cssBlock(ContentOf(project.files, <<"style.css">>)) \o <<"\n">>)

\* C8: reference removal takes out only link tags whose own href ends with
\* style.css and script elements whose own src is the chosen script file;
\* every other tag and all other text, link and script elements that refer
\* to other files included, stays: what the document holds apart from such
\* elements is the same before and after the removal.
C8_OnlyOwnReferencesRemoved ==
    (zip.mode = "single" /\ isZipping)
    => /\ FindByName(project.files, <<"style.css">>) # 0
          => StripOwnTags(htmlSteps.linkRemoved, 1, "<link", "href=", "style.css", FALSE)
             = StripOwnTags(htmlSteps.cssInjected, 1, "<link", "href=", "style.css", FALSE)
       /\ ChosenScript(project.files) # <<>>
          => StripOwnTags(htmlSteps.finalHtml, 1, "<script", "src=",
                          ChosenScript(project.files)[1], TRUE)
             = StripOwnTags(htmlSteps.jsInjected, 1, "<script", "src=",
                            ChosenScript(project.files)[1], TRUE)

----------------------------------------------------------------------------
(* Export: failures, the single entry, the archive's name *)

HasIndexHtml(fs) == \E i \in DOMAIN fs : fs[i].name = <<"index.html">>

\* C11: a single-file export of a project without a File named exactly
\* index.html fails with the missing-entry-point error: the error message is
\* set, the success message is not, nothing is generated or downloaded.  The
\* php project of createProject is such a project, the html project is not.
C11_MissingEntryPoint ==
    /\ ~HasIndexHtml(createProjectFiles(<<"P">>, "php"))
    /\ HasIndexHtml(createProjectFiles(<<"P">>, "html"))
    /\ [][(/\ ~isZipping
           /\ isSingleFile
           /\ isSingleFile'
           /\ ~HasIndexHtml(project.files))
          => /\ errorMsg' = MissingIndexMessage
             /\ successMsg' = Null
             /\ ~isZipping'
             /\ downloads' = downloads]_vars

\* the php project of createProject was exported in single-file mode
C11_Witness ==
    /\ project.files = createProjectFiles(<<"P">>, "php")
    /\ zip.mode = "single"
    /\ errorMsg = MissingIndexMessage
    /\ downloads = <<>>

\* C12: in single-file mode the archive holds, under the sanitized root
\* folder, exactly one file entry, named index.html and holding the merged
\* document, whatever other files and directories the project contains.
C12_SingleEntry ==
    (zip.mode = "single" /\ HasIndexHtml(project.files))
    => /\ Len(zip.entries) = 2
       /\ zip.entries[1] = ZipEntry(<<safeProjectName(project.name)>>, TRUE, <<>>, FALSE)
       /\ zip.entries[2] = ZipEntry(<<safeProjectName(project.name), <<"index.html">>>>,
                                    FALSE, MergeSteps(project.files).finalHtml, FALSE)

\* a single-file archive of a project with a folder and an image was delivered
C12_Witness ==
    /\ zip.mode = "single"
    /\ downloads # <<>>
    /\ downloads[1].entries = zip.entries
    /\ \E i \in DOMAIN project.files : Truthy(project.files[i].isDirectory)
    /\ \E i \in DOMAIN project.files : IsBinary(project.files[i])

\* C13: an export completes or fails as a whole: a download is triggered
\* only by the step that ends a run whose archive generation succeeded, once,
\* together with the success message and with the archive that was built; a
\* step that sets an error message triggers none, and the two messages are
\* never shown together.
C13_AtomicExport ==
    /\ [](~(errorMsg # Null /\ successMsg # Null))
    /\ [][/\ downloads' # downloads
             => /\ isZipping /\ ~isZipping'
                /\ downloads' = Append(downloads, [filename |-> zip.name \o <<".zip">>,
                                                   entries |-> zip.entries])
                /\ successMsg' = "Export Successful!"
                /\ errorMsg' = Null
          /\ (errorMsg' # Null /\ (errorMsg = Null \/ isZipping))
             => downloads' = downloads /\ ~isZipping' /\ successMsg' = Null]_vars

\* archive generation failed after a tree was packed: nothing was downloaded
C13_Witness ==
    /\ errorMsg \in RejectMessages
    /\ ~isZipping
    /\ zip.mode = "standard"
    /\ Len(zip.entries) > 2
    /\ downloads = <<>>

\* an image or font leaf whose content starts with the data-URI prefix and
\* holds no comma
MalformedDataUri(f) ==
    /\ ~Truthy(f.isDirectory)
    /\ IsBinary(f)
    /\ StartsWithData(f.content)
    /\ "," \notin Range(f.content)

\* C14: an image or font leaf whose content starts with the data-URI prefix
\* but has no comma gets no archive entry, and every other file and
\* directory is exported as if that leaf were absent from the project.
C14_MalformedSkipped ==
    zip.mode = "standard"
    => /\ zip.entries =
             StandardArchive([name |-> project.name,
                              files |-> SelectSeq(project.files,
                                                  LAMBDA f : ~MalformedDataUri(f))])
       /\ TreeWellFormed(project.files)
          => \A i \in DOMAIN project.files :
                MalformedDataUri(project.files[i])
                => \A k \in DOMAIN zip.entries :
                      zip.entries[k].path #
                         <<zip.name>> \o PathOf(project.files, project.files[i].id,
                                                Len(project.files))

\* an archive was delivered for a well-formed tree that holds a malformed
\* font in a folder next to another leaf
C14_Witness ==
    /\ zip.mode = "standard"
    /\ downloads # <<>>
    /\ successMsg # Null
    /\ TreeWellFormed(project.files)
    /\ Len(project.files) = 3
    /\ Len(zip.entries) = 3
    /\ \E i \in DOMAIN project.files :
          MalformedDataUri(project.files[i]) /\ project.files[i].parentId # root

----------------------------------------------------------------------------
(* Export of projects under every short name *)

MaxProjectNameLen == 3

\* the characters a project name is made of here: a letter, an underscore,
\* a blank, a line break and two characters the sanitizer removes
NameChars == {"a", "_", " ", "\n", "!", "."}

RECURSIVE NameStrings(_)
NameStrings(n) ==
    IF n = 0 THEN { <<>> }
    ELSE NameStrings(n - 1) \cup { Append(s, ch) : s \in NameStrings(n - 1), ch \in NameChars }

NamedProjects ==
    UNION { { [name |-> name, files |-> fs] :
                fs \in ExportFiles(1) \cup { createProjectFiles(name, "html") } } :
            name \in NameStrings(MaxProjectNameLen) }

NameInit ==
    /\ files = <<>>
    /\ ExplorerIdle
    /\ WalkIdle
    /\ AiIdle
    /\ StoreIdle
    /\ project \in NamedProjects
    /\ isSingleFile = FALSE
    /\ isZipping = FALSE
    /\ successMsg = Null
    /\ errorMsg = Null
    /\ zip = NoZip
    /\ htmlSteps = NoSteps
    /\ downloads = <<>>

SpecName == NameInit /\ [][ExportNext]_vars

\* C15: sanitizing a project name is idempotent: the name an export gave its
\* archive is its own sanitized form, also when it is the default label.
C15_SanitizeIdempotent ==
    /\ safeProjectName(safeProjectName(project.name)) = safeProjectName(project.name)
    /\ zip.mode # "none" => safeProjectName(zip.name) = zip.name

\* an export of a project whose name has nothing the sanitizer keeps
C15_Witness ==
    /\ zip.mode # "none"
    /\ zip.name = DefaultLabel
    /\ Len(project.name) = MaxProjectNameLen

\* the characters the sanitizer is to keep, and whitespace among them
KeptChars ==
    {"a", "b", "c", "e", "j", "o", "r", "t", "A", "B", "P", "0", "-", "_"}
WhitespaceChars == {" ", "\n"}

\* s is name without the characters that are neither kept nor whitespace,
\* cut at the first and after the last kept character
IsStrippedAndTrimmed(s, name) ==
    LET kept == SelectSeq(name, LAMBDA ch : ch \in KeptChars \cup WhitespaceChars)
        solid == {i \in DOMAIN kept : kept[i] \in KeptChars}
    IN  IF solid = {} THEN s = <<>>
        ELSE s = SubSeq(kept, Min(solid), Max(solid))

----------------------------------------------------------------------------
(* Single-file export: the script merged *)

HasFileNamed(fs, name) == \E i \in DOMAIN fs : fs[i].name = name

\* the content of the first File of that name
FirstContent(fs, name) ==
    fs[Min({i \in DOMAIN fs : fs[i].name = name})].content

\* the name of the script the merge is to take: script.js if a File of that
\* name exists, main.js if only that exists, "" if neither does
ScriptToMerge(fs) ==
    IF HasFileNamed(fs, <<"script.js">>) THEN "script.js"
    ELSE IF HasFileNamed(fs, <<"main.js">>) THEN "main.js"
    ELSE ""

\* C17: in single-file mode script.js is the script merged whenever a File of
\* that name exists, whether or not main.js exists and whatever their order;
\* main.js is merged only when there is no script.js; when neither exists no
\* script block is injected and no script element is removed.
C17_ScriptSelection ==
    (zip.mode = "single" /\ HasIndexHtml(project.files))
    => LET name == ScriptToMerge(project.files)
       IN  IF name = ""
           THEN /\ htmlSteps.jsInjected = htmlSteps.linkRemoved
                /\ htmlSteps.finalHtml = htmlSteps.linkRemoved
           ELSE /\ htmlSteps.jsInjected =
                      InjectJs(htmlSteps.linkRemoved,
                               jsBlock(name, FirstContent(project.files, <<name>>)))
                /\ Includes(htmlSteps.jsInjected, "/* Injected from " \o name \o " */")
                /\ htmlSteps.finalHtml = RemoveScriptTags(htmlSteps.jsInjected, name)
                /\ name = "script.js"
                   => ~Includes(htmlSteps.finalHtml, "/* Injected from main.js */")

\* main.js stands before script.js in the file set, script.js was merged and
\* the element that refers to main.js is still in the document
C17_Witness ==
    /\ zip.mode = "single"
    /\ HasFileNamed(project.files, <<"main.js">>)
    /\ HasFileNamed(project.files, <<"script.js">>)
    /\ FindByName(project.files, <<"main.js">>) < FindByName(project.files, <<"script.js">>)
    /\ Includes(htmlSteps.finalHtml, "/* Injected from script.js */")
    /\ Includes(htmlSteps.finalHtml, "main.js")
    /\ ~Includes(htmlSteps.finalHtml, "script.js")
    /\ Includes(htmlSteps.index, "script.js")

----------------------------------------------------------------------------
(* Single-file export: the place of the script block *)

\* C18: when a script file is chosen the script block is injected at one
\* place: right before the first </body> of the working document if it has
\* one, otherwise at the very end of the document.
C18_ScriptInjectionPlace ==
    (/\ zip.mode = "single"
     /\ isZipping
     /\ ScriptToMerge(project.files) # "")
    => LET name  == ScriptToMerge(project.files)
           block == jsBlock(name, FirstContent(project.files, <<name>>))
           doc   == htmlSteps.linkRemoved
       IN  htmlSteps.jsInjected =
              IF Includes(doc, "</body>")
              THEN InsertAt(doc, FirstIndex(doc, {"</body>"}), block \o <<"\n">>)
              ELSE doc \o <<"\n">> \o block

----------------------------------------------------------------------------
(* The recursive traversals, call by call *)

\* file sets of the traversal specification
MaxWalkFiles == 2
\* the depth at which the engine gives up a recursion (RangeError: Maximum
\* call stack size exceeded); no tree of MaxWalkFiles Files is that deep
MaxCallDepth == MaxWalkFiles + 2

\* one activation of processFolder or renderTree: the items still to visit
Frame(fn, parentId, rest) == [fn |-> fn, parentId |-> parentId, rest |-> rest]

Top == calls[Len(calls)]

\* the activation on top goes on to its next item
Advance == [calls EXCEPT ![Len(calls)].rest = Tail(@)]

\* the items of one activation: filter (line 90), and for renderTree the
\* sort (lines 219-225)
ItemsOf(fn, parentId) ==
    IF fn = "processFolder"
    THEN { FilterByParent(project.files, parentId) }
    ELSE SortOutcomes(FilterByParent(files, parentId))

\* the item on top leads to a recursive call: a directory (line 94), for
\* renderTree an expanded one (line 293)
Recurses ==
    /\ calls # <<>>
    /\ Top.rest # <<>>
    /\ Truthy(Head(Top.rest).isDirectory)
    /\ Top.fn = "renderTree" => Head(Top.rest).id \in expandedFolders

\* processFolder('root', rootFolder), line 120
processFolderStart ==
    /\ calls = <<>>
    /\ \E its \in ItemsOf("processFolder", root) :
          calls' = <<Frame("processFolder", root, its)>>
    /\ callError' = Null
    /\ UNCHANGED <<explorerVars, storeVars, exportVars, aiVars>>

\* renderTree('root'), line 315
renderTreeStart ==
    /\ calls = <<>>
    /\ \E its \in ItemsOf("renderTree", root) :
          calls' = <<Frame("renderTree", root, its)>>
    /\ callError' = Null
    /\ UNCHANGED <<explorerVars, storeVars, exportVars, aiVars>>

\* processFolder(item.id, newZipFolder), line 98; renderTree(file.id,
\* depth + 1), line 294
CallEnter ==
    /\ Recurses
    /\ Len(calls) < MaxCallDepth
    /\ \E its \in ItemsOf(Top.fn, Head(Top.rest).id) :
          calls' = Append(Advance, Frame(Top.fn, Head(Top.rest).id, its))
    /\ UNCHANGED callError
    /\ UNCHANGED <<explorerVars, storeVars, exportVars, aiVars>>

\* the same call with the stack used up
CallOverflow ==
    /\ Recurses
    /\ Len(calls) = MaxCallDepth
    /\ calls' = <<>>
    /\ callError' = "RangeError"
    /\ UNCHANGED <<explorerVars, storeVars, exportVars, aiVars>>

\* an item that is not recursed into
CallLeaf ==
    /\ calls # <<>>
    /\ Top.rest # <<>>
    /\ ~Recurses
    /\ calls' = Advance
    /\ UNCHANGED callError
    /\ UNCHANGED <<explorerVars, storeVars, exportVars, aiVars>>

\* forEach / map has run through its items
CallReturn ==
    /\ calls # <<>>
    /\ Top.rest = <<>>
    /\ calls' = SubSeq(calls, 1, Len(calls) - 1)
    /\ UNCHANGED callError
    /\ UNCHANGED <<explorerVars, storeVars, exportVars, aiVars>>

\* the row of files[i] is rendered (ids need not be unique here)
RECURSIVE RowRendered(_, _)
RowRendered(i, fuel) ==
    /\ fuel > 0
    /\ \/ files[i].parentId = root
       \/ /\ files[i].parentId \in expandedFolders
          /\ \E j \in DOMAIN files :
                /\ files[j].id = files[i].parentId
                /\ Truthy(files[j].isDirectory)
                /\ RowRendered(j, fuel - 1)

\* onClick of the row of the directory files[i] (lines 251-256)
ClickFolderRow(i) ==
    /\ calls = <<>>
    /\ Truthy(files[i].isDirectory)
    /\ RowRendered(i, Len(files))
    /\ expandedFolders' = toggleFolder(files[i].id)
    /\ activeFolderId' = files[i].id
    /\ UNCHANGED <<files, nextId, addingType, newItemName, editingId, editName,
                   fileToDelete, items, lastOp>>
    /\ UNCHANGED <<importVars, storeVars, exportVars, walkVars, aiVars>>

\* file sets as a corrupted store can hold them: ids that repeat or are
\* 'root', parents that are the File itself or one of its descendants
WalkIds == {"1", "2", root}

RECURSIVE WalkFiles(_)
WalkFiles(n) ==
    IF n = 0 THEN { <<>> }
    ELSE { Append(fs, File(id, <<"a">>, <<>>, "plaintext", parentId, isDir)) :
             fs \in WalkFiles(n - 1), id \in WalkIds, parentId \in WalkIds,
             isDir \in {"true", "false"} }

WalkInit ==
    /\ \E fs \in UNION { WalkFiles(n) : n \in 0..MaxWalkFiles } :
          /\ files = fs
          /\ project = [name |-> <<"P">>, files |-> fs]
    /\ isSingleFile = FALSE
    /\ isZipping = FALSE
    /\ successMsg = Null
    /\ errorMsg = Null
    /\ zip = NoZip
    /\ htmlSteps = NoSteps
    /\ downloads = <<>>
    /\ ExplorerIdle
    /\ WalkIdle
    /\ AiIdle
    /\ StoreIdle

WalkNext ==
    \/ processFolderStart
    \/ renderTreeStart
    \/ CallEnter
    \/ CallOverflow
    \/ CallLeaf
    \/ CallReturn
    \/ \E i \in DOMAIN files : ClickFolderRow(i)

SpecWalk == WalkInit /\ [][WalkNext]_vars

\* ids are unique and none is 'root'
UniqueIds(fs) ==
    /\ \A i, j \in DOMAIN fs : fs[i].id = fs[j].id => i = j
    /\ root \notin Ids(fs)

\* C19: the export traversal and the tree rendering terminate for every file
\* set, those with cyclic parent links or repeated ids included: the
\* recursion is never deeper than the tree, one activation for root and at
\* most one for each File, and never uses up the stack.
C19_TraversalsTerminate ==
    /\ callError # "RangeError"
    /\ Len(calls) <= Len(files) + 1

----------------------------------------------------------------------------
(* Explorer: the names it passes on *)

\* a name as the explorer hands it to addFile and renameFile
TrimmedName(name) == name # <<>> /\ Trim(name) = name

\* C20: a create or a rename submitted with a name that is empty after
\* trimming calls no tree operation and changes no File; the name passed on
\* is the trimmed one; so after any sequence of explorer actions no File has
\* an empty name.
C20_NoEmptyName ==
    /\ [](\A i \in DOMAIN files : TrimmedName(files[i].name))
    /\ [][/\ lastOp'.op = "addFile"
             => /\ Trim(newItemName) # <<>>
                /\ files' # files
                   => /\ Len(files') = Len(files) + 1
                      /\ SubSeq(files', 1, Len(files)) = files
                      /\ files'[Len(files')].name = Trim(newItemName)
          /\ lastOp'.op = "renameFile"
             => /\ Trim(editName) # <<>>
                /\ Len(files') = Len(files)
                /\ \A i \in DOMAIN files :
                      files'[i].name \in {files[i].name, Trim(editName)}
          /\ Len(files') > Len(files) => Trim(newItemName) # <<>>
          /\ (files' # files /\ Len(files') = Len(files))
             => Trim(editName) # <<>>
          /\ (lastOp'.op \in {"addFile", "renameFile"} \/ Len(files') >= Len(files))
             => \A i \in DOMAIN files' : TrimmedName(files'[i].name)]_vars

\* a File was created from the input " a" and a File was renamed to it
C20_Witness ==
    /\ nextId > 4
    /\ files[Len(files)].id = "4"
    /\ files[Len(files)].name = <<"a">>
    /\ lastOp.op = "renameFile"
    /\ lastOp.id # "4"
    /\ FileById(files, lastOp.id).name = <<"a">>
    /\ files \notin OpenedFiles

----------------------------------------------------------------------------
(* Explorer: the folder new Files go to *)

\* C21: the parent id the explorer passes to addFile, its active folder, is
\* in every reachable explorer state root or the id of a directory of the
\* file set, also after the selected folder was deleted.
C21_ActiveFolderValid ==
    activeFolderId = root \/ IsDirectoryId(files, activeFolderId)

----------------------------------------------------------------------------
(* Export: the in-progress flag and the two messages *)

ExactlyOneMessage == (successMsg # Null) # (errorMsg # Null)

\* C22: an export run sets the in-progress flag and clears both messages
\* when it starts; when it ends, on success and on every failure, the flag
\* is cleared and exactly one of the success message and the error message
\* is set; the flag is never left set after the run.
C22_RunBrackets ==
    /\ [](isZipping => (successMsg = Null /\ errorMsg = Null))
    /\ []((~isZipping /\ zip.mode # "none") => ExactlyOneMessage)
    /\ [][/\ (~isZipping /\ isZipping')
             => (successMsg' = Null /\ errorMsg' = Null)
          /\ (isZipping /\ ~isZipping')
             => (successMsg' # Null) # (errorMsg' # Null)
          /\ (~isZipping /\ zip' # zip) 
             => \/ isZipping'
                \/ (successMsg' = Null /\ errorMsg' # Null)
          /\ (isZipping /\ isZipping') => UNCHANGED <<successMsg, errorMsg, zip>>]_vars

\* a run that failed was followed by a single-file run that succeeded
C22_Witness ==
    /\ ~isZipping
    /\ successMsg = "Export Successful!"
    /\ errorMsg = Null
    /\ zip.mode = "single"
    /\ Len(downloads) = 1

----------------------------------------------------------------------------
(* Export while the project changes *)

\* Files of the project while the panel is shown
MaxSnapshotFiles == 4

\* what an edit leaves in a File
EditedContent == <<"x">>

\* the panel is rendered again with a project whose File i was edited
ProjectEdited(i) ==
    /\ project.files[i].content # EditedContent
    /\ ~Truthy(project.files[i].isDirectory)
    /\ project' = [project EXCEPT !.files[i].content = EditedContent]
    /\ UNCHANGED <<isSingleFile, isZipping, successMsg, errorMsg, zip,
                   htmlSteps, downloads>>
    /\ UNCHANGED <<explorerVars, storeVars, walkVars, aiVars>>

\* ... to which a File was added
ProjectGrown ==
    /\ Len(project.files) < MaxSnapshotFiles
    /\ "4" \notin Ids(project.files)
    /\ project' = [project EXCEPT
                      !.files = addFile(@, root, <<"a">>, <<>>, FALSE, "4")]
    /\ UNCHANGED <<isSingleFile, isZipping, successMsg, errorMsg, zip,
                   htmlSteps, downloads>>
    /\ UNCHANGED <<explorerVars, storeVars, walkVars, aiVars>>

\* ... from which a File was deleted
ProjectShrunk(id) ==
    /\ project' = [project EXCEPT !.files = deleteFile(@, id)]
    /\ UNCHANGED <<isSingleFile, isZipping, successMsg, errorMsg, zip,
                   htmlSteps, downloads>>
    /\ UNCHANGED <<explorerVars, storeVars, walkVars, aiVars>>

SnapshotInit ==
    /\ files = <<>>
    /\ ExplorerIdle
    /\ WalkIdle
    /\ AiIdle
    /\ StoreIdle
    /\ project = [name |-> <<"P">>, files |-> createProjectFiles(<<"P">>, "html")]
    /\ isSingleFile = FALSE
    /\ isZipping = FALSE
    /\ successMsg = Null
    /\ errorMsg = Null
    /\ zip = NoZip
    /\ htmlSteps = NoSteps
    /\ downloads = <<>>

SnapshotNext ==
    \/ ExportClick
    \/ GenerateResolve
    \/ \E message \in RejectMessages : GenerateReject(message)
    \/ ToggleSingleFile
    \/ \E i \in DOMAIN project.files : ProjectEdited(i)
    \/ ProjectGrown
    \/ \E id \in Ids(project.files) : ProjectShrunk(id)

SpecSnapshot == SnapshotInit /\ [][SnapshotNext]_vars

\* the archive of a project in the mode of the switch
ArchiveOf(p, single) ==
    IF single
    THEN << ZipEntry(<<safeProjectName(p.name)>>, TRUE, <<>>, FALSE),
            ZipEntry(<<safeProjectName(p.name), <<"index.html">>>>, FALSE,
                     MergeSteps(p.files).finalHtml, FALSE) >>
    ELSE StandardArchive(p)

\* C23: the archive an export produces is the one of the project's files and
\* of the single-file switch as they were when the export was started:
\* edits, adds, deletes and toggles made while generation is pending change
\* neither the contents nor the mode of the archive in flight.
C23_PointInTimeArchive ==
    [][/\ (~isZipping /\ isZipping')
          => /\ zip'.entries = ArchiveOf(project, isSingleFile)
             /\ zip'.mode = IF isSingleFile THEN "single" ELSE "standard"
       /\ (isZipping /\ isZipping') => zip' = zip
       /\ downloads' # downloads
          => /\ isZipping
             /\ zip' = zip
             /\ downloads' = Append(downloads, [filename |-> zip.name \o <<".zip">>,
                                                entries |-> zip.entries])]_vars

\* an archive was delivered that is not the archive of the project and of
\* the switch as they are now: both changed while it was generated
C23_Witness ==
    /\ Len(downloads) = 1
    /\ successMsg # Null
    /\ zip.mode = "standard"
    /\ isSingleFile
    /\ downloads[1].entries = zip.entries
    /\ Len(project.files) = 3
    /\ FindByName(project.files, <<"index.html">>) # 0
    /\ downloads[1].entries # StandardArchive(project)
    /\ downloads[1].entries # ArchiveOf(project, TRUE)

----------------------------------------------------------------------------
(* Import of picked files *)

\* files picked in one import
MaxImportFiles == 2

\* a picked file: its name, its MIME type, and whether reading it succeeds
PickedFiles ==
    { [name |-> n, type |-> t, readable |-> r] :
        n \in {<<"logo.png">>}, t \in {"image/png"}, r \in BOOLEAN } \cup
    { [name |-> n, type |-> t, readable |-> r] :
        n \in {<<"f.ttf">>}, t \in {""}, r \in BOOLEAN } \cup
    { [name |-> n, type |-> t, readable |-> r] :
        n \in {<<"a.txt">>}, t \in {"text/plain"}, r \in BOOLEAN }

RECURSIVE PickedLists(_)
PickedLists(n) ==
    IF n = 0 THEN { <<>> }
    ELSE { Append(l, f) : l \in PickedLists(n - 1), f \in PickedFiles }

\* lines 180-181
isImage(file) == file.type \in {"image/png"}
isFont(file) == file.name \in {<<"f.ttf">>}

\* what a successful read gives: a data URL (readAsDataURL) or the text
ReadContent(file) ==
    IF isImage(file) THEN <<"data:", "image/png;base64", ",", "AB">>
    ELSE IF isFont(file) THEN <<"data:", "application/octet-stream;base64", ",", "AB">>
    ELSE <<"t">>

\* Math.round((processed / total) * 100)
Percent(done, total) == (200 * done + total) \div (2 * total)

\* the file the loop is waiting for
CurrentFile == fileList[processed + 1]
Reading == isUploading /\ processed < Len(fileList)

\* handleImportFiles up to its first await (lines 166-191)
handleImportFiles(list) ==
    /\ ~isUploading
    /\ NoModal
    /\ list # <<>>
    /\ nextId <= MaxId
    /\ isUploading' = TRUE
    /\ uploadProgress' = 0
    /\ fileList' = list
    /\ processed' = 0
    /\ importFolder' = activeFolderId
    /\ lastOp' = NoOp
    /\ UNCHANGED <<files, nextId, activeFolderId, addingType, newItemName,
                   editingId, editName, fileToDelete, expandedFolders, items>>
    /\ UNCHANGED <<storeVars, exportVars, walkVars, aiVars>>

\* reader.onload / file.text() resolves: lines 198, 203-204
ReadResolve ==
    /\ Reading
    /\ CurrentFile.readable
    /\ files' = addFile(files, importFolder, CurrentFile.name,
                        ReadContent(CurrentFile), FALSE, ToString(nextId))
    /\ nextId' = IF files' # files THEN nextId + 1 ELSE nextId
    /\ processed' = processed + 1
    /\ uploadProgress' = Percent(processed + 1, Len(fileList))
    /\ lastOp' = [op |-> "addFile", id |-> importFolder, removed |-> 0]
    /\ UNCHANGED <<activeFolderId, addingType, newItemName, editingId, editName,
                   fileToDelete, expandedFolders, items>>
    /\ UNCHANGED <<isUploading, fileList, importFolder>>
    /\ UNCHANGED <<storeVars, exportVars, walkVars, aiVars>>

\* file.text() rejects: catch (lines 199-201), then lines 203-204.  The
\* promise around the FileReader has no reject and no onerror (lines 187-191):
\* a failed read of an image or font settles nothing.
TextReject ==
    /\ Reading
    /\ ~CurrentFile.readable
    /\ ~(isImage(CurrentFile) \/ isFont(CurrentFile))
    /\ processed' = processed + 1
    /\ uploadProgress' = Percent(processed + 1, Len(fileList))
    /\ lastOp' = NoOp
    /\ UNCHANGED <<files, nextId, activeFolderId, addingType, newItemName,
                   editingId, editName, fileToDelete, expandedFolders, items>>
    /\ UNCHANGED <<isUploading, fileList, importFolder>>
    /\ UNCHANGED <<storeVars, exportVars, walkVars, aiVars>>

\* the timer of lines 207-212
ImportTimeout ==
    /\ isUploading
    /\ processed = Len(fileList)
    /\ isUploading' = FALSE
    /\ uploadProgress' = 0
    /\ expandedFolders' = expandedFolders \cup {importFolder}
    /\ lastOp' = NoOp
    /\ UNCHANGED <<files, nextId, activeFolderId, addingType, newItemName,
                   editingId, editName, fileToDelete, items>>
    /\ UNCHANGED <<fileList, processed, importFolder>>
    /\ UNCHANGED <<storeVars, exportVars, walkVars, aiVars>>

ImportInit ==
    /\ files \in OpenedFiles
    /\ ExplorerIdle
    /\ WalkIdle
    /\ AiIdle
    /\ StoreIdle
    /\ ExportIdle

\* the overlay of lines 319-326 covers the rows while an import runs
ImportNext ==
    \/ ~isUploading /\ ClickRoot
    \/ \E id \in Ids(files) : ~isUploading /\ ClickRow(id)
    \/ \E list \in UNION { PickedLists(n) : n \in 1..MaxImportFiles } :
          handleImportFiles(list)
    \/ ReadResolve
    \/ TextReject
    \/ ImportTimeout

\* every read that settles is delivered, and the timer fires
SpecImport ==
    /\ ImportInit
    /\ [][ImportNext]_vars
    /\ WF_vars(ReadResolve)
    /\ WF_vars(TextReject)
    /\ WF_vars(ImportTimeout)

\* the safety half of the import claim: one file at a time in list order, a
\* readable one added once to the folder as a non-directory, an unreadable
\* one not added, progress 100 after the last
ImportStepwise ==
    /\ [](isUploading /\ processed = Len(fileList) => uploadProgress = 100)
    /\ [][isUploading
          => /\ processed' \in {processed, processed + 1}
             /\ fileList' = fileList
             /\ processed' = processed => files' = files
             /\ (processed' = processed + 1 /\ fileList[processed'].readable)
                => /\ Len(files') = Len(files) + 1
                   /\ SubSeq(files', 1, Len(files)) = files
                   /\ files'[Len(files')].name = fileList[processed'].name
                   /\ files'[Len(files')].parentId = importFolder
                   /\ ~Truthy(files'[Len(files')].isDirectory)
             /\ (processed' = processed + 1 /\ ~fileList[processed'].readable)
                => files' = files]_vars

\* C24: an import of n files processes them one at a time in list order; a
\* file whose read fails is skipped without stopping the batch and without
\* being added, and the processed count still advances for it; a file whose
\* read succeeds is added once to the active folder as a non-directory;
\* after the last file the progress is 100 and the uploading flag is
\* eventually cleared.
C24_ImportCompletes ==
    /\ ImportStepwise
    /\ Reading ~> (isUploading /\ processed = Len(fileList) /\ uploadProgress = 100)
    /\ isUploading ~> ~isUploading

----------------------------------------------------------------------------
(* Standard export: leaves written as text *)

\* Files of a project of the leaf specification
MaxLeafFiles == 3

\* a folder; a text File; a text File whose content has the data-URI prefix,
\* with and without comma; an image and a font whose content has not; an
\* image whose content has
LeafShapes == {"dir", "text", "textData", "textData0", "imageRaw", "fontRaw", "image1"}

LeafFileAt(i, name, parentId, shape) ==
    CASE shape = "dir" -> File(ToString(i), name, <<>>, "plaintext", parentId, "true")
      [] shape = "text" -> File(ToString(i), name, <<"t">>, "plaintext", parentId, "false")
      [] shape = "textData" ->
           File(ToString(i), name, <<"data:", "m", ",", "AB">>, "javascript",
                parentId, "false")
      [] shape = "textData0" ->
           File(ToString(i), name, <<"data:", "m">>, "plaintext", parentId, "absent")
      [] shape = "imageRaw" ->
           File(ToString(i), name, <<"<svg>", ",", "</svg>">>, "image", parentId, "false")
      [] shape = "fontRaw" ->
           File(ToString(i), name, <<>>, "font", parentId, "false")
      [] OTHER ->
           File(ToString(i), name, <<"data:", "m", ",", "AB">>, "image", parentId, "false")

RECURSIVE LeafFiles(_)
LeafFiles(n) ==
    IF n = 0 THEN { <<>> }
    ELSE { Append(fs, LeafFileAt(n, name, parentId, shape)) :
             fs \in LeafFiles(n - 1), name \in ExportNames,
             parentId \in {root} \cup {ToString(k) : k \in 1..(n - 1)},
             shape \in LeafShapes }

LeafInit ==
    /\ files = <<>>
    /\ ExplorerIdle
    /\ WalkIdle
    /\ AiIdle
    /\ StoreIdle
    /\ project \in { [name |-> <<"P">>, files |-> fs] :
                        fs \in UNION { LeafFiles(n) : n \in 0..MaxLeafFiles } }
    /\ isSingleFile = FALSE
    /\ isZipping = FALSE
    /\ successMsg = Null
    /\ errorMsg = Null
    /\ zip = NoZip
    /\ htmlSteps = NoSteps
    /\ downloads = <<>>

SpecLeaf == LeafInit /\ [][ExportNext]_vars

\* a leaf that is not (an image or font whose content has the prefix)
TextLeaf(f) ==
    /\ ~Truthy(f.isDirectory)
    /\ ~(f.language \in {"image", "font"} /\ f.content # <<>> /\ f.content[1] = "data:")

\* the entries of the archive at the path of File i
EntriesAt(i) ==
    { k \in DOMAIN zip.entries :
         zip.entries[k].path =
            <<zip.name>> \o PathOf(project.files, project.files[i].id, Len(project.files)) }

\* C25: standard export writes a leaf's content unchanged as text in every
\* case but that of an image or font whose content begins with the data-URI
\* prefix: a text File with the prefix and an image or font without it are
\* written as they are, each as exactly one entry.
C25_TextVerbatim ==
    (zip.mode = "standard" /\ TreeWellFormed(project.files))
    => \A i \in DOMAIN project.files :
          TextLeaf(project.files[i])
          => /\ Cardinality(EntriesAt(i)) = 1
             /\ \A k \in EntriesAt(i) :
                   /\ zip.entries[k].data = project.files[i].content
                   /\ ~zip.entries[k].base64
                   /\ ~zip.entries[k].dir

\* an archive was delivered that holds, in a folder, a script whose text has
\* the prefix and an image whose content has not
C25_Witness ==
    /\ zip.mode = "standard"
    /\ downloads # <<>>
    /\ TreeWellFormed(project.files)
    /\ Len(project.files) = 3
    /\ Truthy(project.files[1].isDirectory)
    /\ project.files[2].language = "javascript"
    /\ project.files[2].parentId = "1"
    /\ project.files[2].content[1] = "data:"
    /\ project.files[3].language = "image"
    /\ project.files[3].parentId = "1"
    /\ project.files[3].content[1] = "<svg>"
    /\ Cardinality({k \in DOMAIN downloads[1].entries :
                       ~downloads[1].entries[k].dir
                       /\ ~downloads[1].entries[k].base64}) = 2

----------------------------------------------------------------------------
(* Single-file export: the merged files' text *)

\* C26: the merged document holds the whole content of style.css and the
\* whole content of the chosen script unchanged, each in one piece inside
\* its injected block, whatever the content ($-sequences included); later
\* merge steps do not alter a block already injected.
C26_ContentVerbatim ==
    (zip.mode = "single" /\ HasIndexHtml(project.files))
    => /\ HasFileNamed(project.files, <<"style.css">>)
          => /\ ContainsSeq(htmlSteps.cssInjected,
                            cssBlock(FirstContent(project.files, <<"style.css">>)))
             /\ ContainsSeq(htmlSteps.finalHtml,
                            cssBlock(FirstContent(project.files, <<"style.css">>)))
       /\ ScriptToMerge(project.files) # ""
          => /\ ContainsSeq(htmlSteps.jsInjected,
                            jsBlock(ScriptToMerge(project.files),
                                    FirstContent(project.files,
                                                 <<ScriptToMerge(project.files)>>)))
             /\ ContainsSeq(htmlSteps.finalHtml,
                            jsBlock(ScriptToMerge(project.files),
                                    FirstContent(project.files,
                                                 <<ScriptToMerge(project.files)>>)))

----------------------------------------------------------------------------
(* The sibling order *)

\* C27: the comparator that sorts siblings is a consistent total preorder
\* over the File records, those without isDirectory field mixed with those
\* whose field is false included: compare(a, b) and compare(b, a) never
\* both put a after b, and two non-directories are ordered by name.
C27_ComparatorConsistent ==
    /\ ConsistentComparator(files)
    /\ \A i, j \in DOMAIN files :
          /\ ~(Comparator(files[i], files[j]) > 0 /\ Comparator(files[j], files[i]) > 0)
          /\ (~Truthy(files[i].isDirectory) /\ ~Truthy(files[j].isDirectory))
             => Comparator(files[i], files[j])
                   = localeCompare(files[i].name, files[j].name)

----------------------------------------------------------------------------
(* The store: project ids *)

\* what each store operation does to the store: a save replaces in place or
\* appends and leaves the other projects alone; a duplicate of an unknown id
\* gives null and changes nothing
StoreStepwise ==
    [][/\ (lastDup'.done /\ lastDup'.id \notin StoredIds)
          => (store' = store /\ lastDup'.copy = <<>>)
       /\ (~lastDup'.done /\ Len(store') >= Len(store) /\ store' # store)
          => \/ /\ Len(store') = Len(store) + 1
                /\ SubSeq(store', 1, Len(store)) = store
                /\ store'[Len(store')].id \notin StoredIds
             \/ /\ Len(store') = Len(store)
                /\ \E k \in DOMAIN store :
                      /\ store'[k].id = store[k].id
                      /\ \A j \in DOMAIN store : j # k => store'[j] = store[j]]_vars

\* C28: after any sequence of createProject followed by saveProject,
\* saveProject of an existing project, duplicateProject and deleteProject
\* the store never holds two projects with the same id; a save replaces the
\* project of the same id in place or appends, and leaves every other
\* project as it was; duplicateProject of an unknown id returns null and
\* leaves the store as it was.
C28_ProjectIdsUnique ==
    /\ [](\A i, j \in DOMAIN store : i # j => store[i].id # store[j].id)
    /\ StoreStepwise

----------------------------------------------------------------------------
(* CodeEditor: the streamed AI response *)

\* lines of a response, chunks it arrives in, rewrites applied
MaxLines == 2
MaxChunks == 2
MaxChanges == 1

\* the content deltas of the response as they stand in the JSON text; "\\n"
\* is the escaped line break, which JSON.parse turns into a line break
WireDeltas == {"a", " ", "\\n", "[fence]", ""}

JsonDecode(d) == IF d = "\\n" THEN "\n" ELSE d

\* the lines of a stream: a data line for a delta, the end marker, a comment
\* and an empty line
StreamLines ==
    { <<"data: ", "{", d, "}">> : d \in WireDeltas } \cup
    { <<"data: ", "[DONE]">>, <<": OPENROUTER PROCESSING">>, <<>> }

RECURSIVE LineLists(_)
LineLists(n) ==
    IF n = 0 THEN { <<>> }
    ELSE LineLists(n - 1) \cup
         { Append(l, line) : l \in LineLists(n - 1), line \in StreamLines }

\* the text of the lines, each but the last followed by a line break, the
\* last one too when the stream is terminated
RECURSIVE JoinLines(_, _)
JoinLines(lines, terminated) ==
    IF lines = <<>> THEN <<>>
    ELSE IF Len(lines) = 1
    THEN Head(lines) \o (IF terminated THEN <<"\n">> ELSE <<>>)
    ELSE Head(lines) \o <<"\n">> \o JoinLines(Tail(lines), terminated)

\* the ways a text arrives in at most MaxChunks chunks, none of them empty
RECURSIVE Chunkings(_, _)
Chunkings(text, n) ==
    IF text = <<>> THEN { <<>> }
    ELSE { <<text>> } \cup
         (IF n <= 1 THEN {}
          ELSE UNION { { <<SubSeq(text, 1, c)>> \o rest :
                            rest \in Chunkings(SubSeq(text, c + 1, Len(text)), n - 1) } :
                       c \in 1..(Len(text) - 1) })

\* String.prototype.split('\n')
RECURSIVE SplitLines(_, _)
SplitLines(s, acc) ==
    IF s = <<>> THEN <<acc>>
    ELSE IF Head(s) = "\n" THEN <<acc>> \o SplitLines(Tail(s), <<>>)
         ELSE SplitLines(Tail(s), Append(acc, Head(s)))

\* the body of the for loop (lines 170-185): what one line adds
LineDelta(line) ==
    LET trimmed == Trim(line)
    IN  IF trimmed = <<>> \/ trimmed = <<"data: ", "[DONE]">> THEN <<>>
        ELSE IF Head(trimmed) = "data: "
        THEN IF Len(trimmed) = 4 /\ trimmed[2] = "{" /\ trimmed[4] = "}"
                /\ trimmed[3] # ""
             THEN <<JsonDecode(trimmed[3])>>
             ELSE <<>>
        ELSE <<>>

RECURSIVE LinesDelta(_)
LinesDelta(lines) ==
    IF lines = <<>> THEN <<>>
    ELSE LineDelta(Head(lines)) \o LinesDelta(Tail(lines))

\* fullContent.replace(/^[fence][a-z]*\n/i, '').replace(/\n[fence]$/, '').trim()
newCode(full) ==
    LET opened == IF Len(full) >= 2 /\ full[1] = "[fence]" /\ full[2] = "\n"
                  THEN SubSeq(full, 3, Len(full)) ELSE full
        closed == IF Len(opened) >= 2 /\ opened[Len(opened) - 1] = "\n"
                     /\ opened[Len(opened)] = "[fence]"
                  THEN SubSeq(opened, 1, Len(opened) - 2) ELSE opened
    IN  Trim(closed)

AiErrors == {"API Error: 500", "Failed to generate changes"}

\* the Sparkles button of the toolbar (line 276)
OpenAiModal ==
    /\ ~showAiModal
    /\ showAiModal' = TRUE
    /\ UNCHANGED <<aiLoading, aiError, streamingCode, fullContent, buffer,
                   stream, pending, changes, aiPhase>>
    /\ UNCHANGED <<explorerVars, storeVars, exportVars, walkVars>>

\* the X button of the dialog, rendered while nothing is loading (line 344)
CloseAiModal ==
    /\ showAiModal
    /\ ~aiLoading
    /\ showAiModal' = FALSE
    /\ UNCHANGED <<aiLoading, aiError, streamingCode, fullContent, buffer,
                   stream, pending, changes, aiPhase>>
    /\ UNCHANGED <<explorerVars, storeVars, exportVars, walkVars>>

\* handleAiSubmit up to the await of fetch (lines 75-120); its button is
\* disabled without a prompt, without an API key and while loading (line 392)
handleAiSubmit ==
    /\ showAiModal
    /\ ~aiLoading
    /\ Len(changes) < MaxChanges
    /\ aiLoading' = TRUE
    /\ aiError' = Null
    /\ streamingCode' = <<>>
    /\ fullContent' = <<>>
    /\ buffer' = <<>>
    /\ stream' = <<>>
    /\ pending' = <<>>
    /\ aiPhase' = "fetch"
    /\ UNCHANGED <<showAiModal, changes>>
    /\ UNCHANGED <<explorerVars, storeVars, exportVars, walkVars>>

\* fetch rejects, or the response is not ok (lines 147-154), then catch and
\* finally; a read that rejects ends the same way
AiFail(message) ==
    /\ aiPhase \in {"fetch", "read"}
    /\ aiError' = message
    /\ aiLoading' = FALSE
    /\ aiPhase' = "idle"
    /\ UNCHANGED <<showAiModal, streamingCode, fullContent, buffer, stream,
                   pending, changes>>
    /\ UNCHANGED <<explorerVars, storeVars, exportVars, walkVars>>

\* the response is ok: its body arrives as this text in these chunks
FetchOk(text, chunks) ==
    /\ aiPhase = "fetch"
    /\ stream' = text
    /\ pending' = chunks
    /\ aiPhase' = "read"
    /\ UNCHANGED <<showAiModal, aiLoading, aiError, streamingCode, fullContent,
                   buffer, changes>>
    /\ UNCHANGED <<explorerVars, storeVars, exportVars, walkVars>>

\* reader.read() gives a chunk (lines 161-186)
ReadChunk ==
    /\ aiPhase = "read"
    /\ pending # <<>>
    /\ LET lines == SplitLines(buffer \o Head(pending), <<>>)
           whole == SubSeq(lines, 1, Len(lines) - 1)
       IN  /\ buffer' = lines[Len(lines)]
           /\ fullContent' = fullContent \o LinesDelta(whole)
           /\ streamingCode' = streamingCode \o LinesDelta(whole)
    /\ pending' = Tail(pending)
    /\ UNCHANGED <<showAiModal, aiLoading, aiError, stream, changes, aiPhase>>
    /\ UNCHANGED <<explorerVars, storeVars, exportVars, walkVars>>

\* reader.read() gives done (lines 162, 188-204)
ReadDone ==
    /\ aiPhase = "read"
    /\ pending = <<>>
    /\ IF fullContent = <<>>
       THEN /\ aiError' = "No code returned from AI"
            /\ UNCHANGED <<changes, showAiModal, streamingCode>>
       ELSE /\ changes' = Append(changes, newCode(fullContent))
            /\ showAiModal' = FALSE
            /\ streamingCode' = <<>>
            /\ UNCHANGED aiError
    /\ aiLoading' = FALSE
    /\ aiPhase' = "idle"
    /\ UNCHANGED <<fullContent, buffer, stream, pending>>
    /\ UNCHANGED <<explorerVars, storeVars, exportVars, walkVars>>

AiInit ==
    /\ files = <<>>
    /\ ExplorerIdle
    /\ WalkIdle
    /\ AiIdle
    /\ StoreIdle
    /\ ExportIdle

AiNext ==
    \/ OpenAiModal
    \/ CloseAiModal
    \/ handleAiSubmit
    \/ \E message \in AiErrors : AiFail(message)
    \/ \E lines \in LineLists(MaxLines), terminated \in BOOLEAN :
          \E chunks \in Chunkings(JoinLines(lines, terminated), MaxChunks) :
             FetchOk(JoinLines(lines, terminated), chunks)
    \/ ReadChunk
    \/ ReadDone

SpecAi == AiInit /\ [][AiNext]_vars

\* the content deltas of all data lines of a text, in order
DeltasOf(text) == LinesDelta(SplitLines(text, <<>>))

\* C29: the code assembled from a streamed response is the concatenation, in
\* order, of the content deltas of all data lines of the stream, however the
\* stream is cut into chunks, a line cut in two and a last line without line
\* break included; onChange is called, once, only when that text is not
\* empty; the loading flag is cleared on every path.
C29_StreamAssembled ==
    /\ []((aiPhase = "read" /\ pending = <<>>) => fullContent = DeltasOf(stream))
    /\ [](aiPhase = "idle" => ~aiLoading)
    /\ [][/\ changes' # changes
             => /\ aiPhase = "read"
                /\ DeltasOf(stream) # <<>>
                /\ changes' = Append(changes, newCode(DeltasOf(stream)))
          /\ (aiPhase = "read" /\ aiPhase' = "idle" /\ aiError' = Null)
             => (changes' # changes <=> DeltasOf(stream) # <<>>)]_vars

====
